---- MODULE Spec2Model ----
(***************************************************************************)
(* Model of the MCP daemon subsystem of y-cli:                             *)
(*   - the client side (daemon_client/main.py, connection_pool.py):        *)
(*     MCPDaemonClient._send_request over a ConnectionPool;                *)
(*   - the daemon side (mcp_daemon/server.py, handlers.py, models.py):     *)
(*     MCPDaemonServer.handle_client and RequestHandler.handle_request.    *)
(* Spec   : pooled callers talking to the daemon.                          *)
(* SpecH  : raw clients writing arbitrary request lines to the daemon.     *)
(***************************************************************************)
EXTENDS Integers, Sequences, FiniteSets, TLC

\* ---------------------------------------------------------------- bounds
NumCallers == 2
MaxPool == 2
MaxLines == 2

Callers == 1..NumCallers
Conns == 1..NumCallers

\* ------------------------------------------------------- plain data values
\* Python None, rendered by str()/f-strings as "None"
None == <<"None">>
\* a JSON field that is absent from the request object (dict.get gives None)
Missing == "<missing>"
\* a JSON value that is a list or an object (unhashable in Python)
Unhashable == "<unhashable>"
\* the empty string (falsy in Python)
Empty == ""

NoConn == 0
NoCaller == 0

ServerNames == {"s1", "s2"}
ToolNames == {"t1"}

\* ------------------------------------------------------------ variables
VARIABLES
    \* ConnectionPool fields
    pool_size, active_connections, available_connections, pool_lock,
    \* one send_request call per caller
    pc, held, request, buffer, outcome, result, acquired, released,
    \* the local socket and the daemon process
    socketExists, daemonUp, nextConn,
    \* one record of fields per connection
    closing, inbox, outbox, peerClosed, clientClosed,
    \* handle_client, one task per connection
    srvPc, srvCur, srvResp, srvCall, srvIn, srvOut, closeCause,
    \* RequestHandler
    sessions, toolCalls,
    running, server, mainPc, cfgIdx, connPc, exit_stack, resource, stopPc, attempts,
    \* what travelled on each socket, in order (history)
    wireLog,
    \* one document on its way through json.dumps, the socket and json.loads
    codecPc, codecIn, codecWire, codecLine, codecOut,
    \* the position of the task that runs ConnectionPool.close_all
    closePc

poolVars == <<pool_size, active_connections, available_connections, pool_lock>>
callerVars == <<pc, held, request, buffer, outcome, result, acquired, released>>
envVars == <<socketExists, daemonUp, nextConn>>
connVars == <<closing, inbox, outbox, peerClosed, clientClosed>>
srvVars == <<srvPc, srvCur, srvResp, srvCall, srvIn, srvOut, closeCause>>
handlerVars == <<sessions, toolCalls>>
codecVars == <<codecPc, codecIn, codecWire, codecLine, codecOut>>
lifeVars == <<running, server, mainPc, cfgIdx, connPc, exit_stack, resource, stopPc, attempts>>
vars == <<poolVars, callerVars, envVars, connVars, srvVars, handlerVars, lifeVars, wireLog, codecVars, closePc>>

\* ------------------------------------------------- daemon response model
\* MCPResponse.__init__
MCPResponse(status, content, error) ==
    [status |-> status, content |-> content, error |-> error]

\* faulty variant: both fields are always written, None or not
to_dictAllFields(r) ==
    [f \in {"status", "content", "error"} |-> r[f]]

\* MCPResponse.to_dict: a field that is None is left out of the dict
to_dict(r) ==
    [f \in {"status"} \cup (IF r.content # None THEN {"content"} ELSE {})
                      \cup (IF r.error # None THEN {"error"} ELSE {}) |-> r[f]]

\* dict.get(key) with default None
DictGet(d, key) == IF key \in DOMAIN d THEN d[key] ELSE None

\* DaemonResponse.from_dict
from_dict(d) ==
    [status  |-> IF "status" \in DOMAIN d THEN d["status"] ELSE "error",
     content |-> DictGet(d, "content"),
     error   |-> DictGet(d, "error")]

\* DaemonResponse(status="error", error=msg)
DaemonError(msg) == [status |-> "error", content |-> None, error |-> msg]

\* ------------------------------------------------------- request lines
\* One newline-terminated line as the daemon receives it.
\*   bad_utf8   : bytes that are not valid UTF-8
\*   oversize   : a line longer than the StreamReader limit
\*   bad_json   : text that json.loads rejects
\*   non_object : valid JSON that is not an object (a number, a list, ...)
\*   object     : a JSON object; absent fields are Missing
Line(kind, type, server_name, tool_name) ==
    [kind |-> kind, type |-> type, server_name |-> server_name, tool_name |-> tool_name]

ObjectLine(type, server_name, tool_name) == Line("object", type, server_name, tool_name)

PlainLine(kind) == Line(kind, Missing, Missing, Missing)

\* the keys of the handlers dict of handle_request
HandlerTypes == {"execute_tool", "list_servers", "list_server_tools",
                 "list_server_resource_templates", "list_server_resources"}

\* the values of "type" in the request dicts the client's methods build
\* (main.py 212-217, 236-241, 253-256, 272-275, 286-288, 303-306, 320-323, 337-340)
ClientTypes ==
    {"execute_tool", "extract_tool_use", "list_servers", "list_server_tools",
     "list_server_resource_templates", "list_server_resources"}

\* the requests the client's convenience operations build
ClientRequests ==
    { ObjectLine("list_servers", Missing, Missing),
      ObjectLine("list_server_tools", "s1", Missing),
      ObjectLine("execute_tool", "s1", "t1") }

\* the lines a raw client writes on the socket
RawLines ==
    { PlainLine("bad_utf8"), PlainLine("oversize"), PlainLine("bad_json"),
      PlainLine("non_object") }
    \cup { ObjectLine(t, Missing, Missing) : t \in {Missing, "bogus", Unhashable, "list_servers"} }
    \cup { ObjectLine("list_server_tools", s, Missing) : s \in {Missing, Unhashable, "s2"} }
    \cup { ObjectLine(t, s, Missing) :
               t \in {"list_server_resource_templates", "list_server_resources"},
               s \in {Missing, "s2"} }
    \cup { ObjectLine("execute_tool", s, "t1") : s \in {Missing, Empty, Unhashable, "s1", "s2"} }
    \cup { ObjectLine("execute_tool", s, Missing) : s \in {"s1", "s2"} }

\* str(x) as an f-string renders it
Str(v) == IF v = Missing THEN "None" ELSE v

\* Python truthiness of a request field
Truthy(v) == v \notin {Missing, Empty}

\* ------------------------------------------------ capability sessions
\* What a call on a session does: it raises an exception with a message, it
\* never returns, or it returns content items (call_tool) / a listing
\* (list_tools, list_resources, ...).
TextItem(t) == [type |-> "text", text |-> t]
ImageItem == [type |-> "image", text |-> "<binary>"]

SessionRaises(msg) ==
    [raises |-> TRUE, hangs |-> FALSE, msg |-> msg, content |-> <<>>, listing |-> <<>>]
SessionHangs ==
    [raises |-> FALSE, hangs |-> TRUE, msg |-> "", content |-> <<>>, listing |-> <<>>]
SessionReturns(content, listing) ==
    [raises |-> FALSE, hangs |-> FALSE, msg |-> "", content |-> content, listing |-> listing]

SessionOutcomes ==
    { SessionRaises("tool failed"), SessionRaises("timed out"), SessionHangs,
      SessionReturns(<<>>, <<>>),
      SessionReturns(<<ImageItem>>, <<>>),
      SessionReturns(<<TextItem("Sunny"), TextItem("72F")>>, <<"t1">>),
      SessionReturns(<<TextItem("Sunny"), ImageItem, TextItem("72F")>>, <<"t1">>) }

\* the registry keys (dict keys, insertion order)
Keys(sess) == { sess[i] : i \in 1..Len(sess) }

\* a raised exception, as opposed to a returned dict
Raise(e) == [raise |-> e]
IsRaise(x) == "raise" \in DOMAIN x

\* str.join
RECURSIVE Join(_, _)
Join(sep, seq) ==
    IF Len(seq) = 0 THEN <<>>
    ELSE IF Len(seq) = 1 THEN <<seq[1]>>
    ELSE <<seq[1], sep>> \o Join(sep, Tail(seq))

\* faulty variant: only the first element is written
JsonDumpsFirstOnly(seq) ==
    <<"[">> \o Join(",", SubSeq(seq, 1, IF Len(seq) > 0 THEN 1 ELSE 0)) \o <<"]">>

\* json.dumps of a list of strings
JsonDumps(seq) == <<"[">> \o Join(",", seq) \o <<"]">>

\* faulty variant: the text of every item is taken, whatever its type
RECURSIVE TextContentsAnyType(_)
TextContentsAnyType(items) ==
    IF Len(items) = 0 THEN <<>>
    ELSE <<items[1].text>> \o TextContentsAnyType(Tail(items))

\* a text is the JSON encoding of a list of n strings
IsJsonList(c, n) ==
    /\ Len(c) = (IF n = 0 THEN 2 ELSE 2 * n + 1)
    /\ c[1] = "[" /\ c[Len(c)] = "]"
    /\ \A i \in 1..(n - 1) : c[2 * i + 1] = ","

\* the list such a text decodes to
JsonList(c, n) == [i \in 1..n |-> c[2 * i]]

\* the text of the text-typed items, in order (handlers.py 70-73)
RECURSIVE TextContents(_)
TextContents(items) ==
    IF Len(items) = 0 THEN <<>>
    ELSE (IF items[1].type = "text" THEN <<items[1].text>> ELSE <<>>)
         \o TextContents(Tail(items))

\* ---------------------------------------------------- RequestHandler
\* `server_name not in self.sessions`; raises TypeError for an unhashable key
LookupRaises(server_name) == server_name = Unhashable

\* faulty variant: only server_name is required
HasRequiredFieldsServerOnly(req) == Truthy(req.server_name)

\* `all([server_name, tool_name])` (handlers.py 54)
HasRequiredFields(req) == Truthy(req.server_name) /\ Truthy(req.tool_name)

\* faulty variant: the registry membership test is left out
ExecutePathNoLookup(req, sess) ==
    IF ~HasRequiredFields(req) THEN "missing"
    ELSE IF LookupRaises(req.server_name) THEN "lookup_raises"
    ELSE "call"

\* the branch handle_execute_tool takes (handlers.py 54-66)
ExecutePath(req, sess) ==
    IF ~HasRequiredFields(req) THEN "missing"
    ELSE IF LookupRaises(req.server_name) THEN "lookup_raises"
    ELSE IF req.server_name \notin Keys(sess) THEN "not_found"
    ELSE "call"

\* faulty variant: the call to the tool is not wrapped in try/except
handle_execute_toolNoTry(req, sess, out) ==
    CASE ExecutePath(req, sess) = "missing" ->
             to_dict(MCPResponse("error", None,
                 <<"Missing required fields (server_name, tool_name)">>))
      [] ExecutePath(req, sess) = "lookup_raises" -> Raise(<<"unhashable type">>)
      [] ExecutePath(req, sess) = "not_found" ->
             to_dict(MCPResponse("error", None,
                 <<"MCP server '", req.server_name, "' not found or not connected">>))
      [] ExecutePath(req, sess) = "call" ->
             IF out.raises
             THEN Raise(<<out.msg>>)
             ELSE to_dict(MCPResponse("success",
                      IF TextContents(out.content) # <<>>
                      THEN Join("\n", TextContents(out.content))
                      ELSE <<"No text content found in result">>,
                      None))

\* RequestHandler.handle_execute_tool
handle_execute_tool(req, sess, out) ==
    CASE ExecutePath(req, sess) = "missing" ->
             to_dict(MCPResponse("error", None,
                 <<"Missing required fields (server_name, tool_name)">>))
      [] ExecutePath(req, sess) = "lookup_raises" -> Raise(<<"unhashable type">>)
      [] ExecutePath(req, sess) = "not_found" ->
             to_dict(MCPResponse("error", None,
                 <<"MCP server '", req.server_name, "' not found or not connected">>))
      [] ExecutePath(req, sess) = "call" ->
             IF out.raises
             THEN to_dict(MCPResponse("error", None,
                      <<"Error executing MCP tool: ", out.msg>>))
             ELSE to_dict(MCPResponse("success",
                      IF TextContents(out.content) # <<>>
                      THEN Join("\n", TextContents(out.content))
                      ELSE <<"No text content found in result">>,
                      None))

\* faulty variant: the configured servers are listed, connected or not
handle_list_serversConfigured(req, sess, out) ==
    to_dict(MCPResponse("success", JsonDumps(<<"s1", "s2">>), None))

\* RequestHandler.handle_list_servers
handle_list_servers(req, sess, out) ==
    to_dict(MCPResponse("success", JsonDumps(sess), None))

\* faulty variant: the registry membership test is left out
ListPathNoLookup(req, sess) ==
    IF ~Truthy(req.server_name) THEN "missing"
    ELSE IF LookupRaises(req.server_name) THEN "lookup_raises"
    ELSE "call"

\* the branch the three per-server list handlers take (handlers.py 96-109)
ListPath(req, sess) ==
    IF ~Truthy(req.server_name) THEN "missing"
    ELSE IF LookupRaises(req.server_name) THEN "lookup_raises"
    ELSE IF req.server_name \notin Keys(sess) THEN "not_found"
    ELSE "call"

\* RequestHandler.handle_list_server_tools, handle_list_resource_templates,
\* handle_list_server_resources: the same shape, one listing call each
handle_list_of_server(what, req, sess, out) ==
    CASE ListPath(req, sess) = "missing" ->
             to_dict(MCPResponse("error", None, <<"Missing server_name parameter">>))
      [] ListPath(req, sess) = "lookup_raises" -> Raise(<<"unhashable type">>)
      [] ListPath(req, sess) = "not_found" ->
             to_dict(MCPResponse("error", None,
                 <<"Server '", req.server_name, "' not found or not connected">>))
      [] ListPath(req, sess) = "call" ->
             IF out.raises
             THEN to_dict(MCPResponse("error", None,
                      <<"Error listing ", what, ": ", out.msg>>))
             ELSE to_dict(MCPResponse("success", JsonDumps(out.listing), None))

\* faulty variant: list_servers asks a session before it answers
DispatchListServersViaSession(req, sess, out) ==
    CASE req.type = "execute_tool" -> handle_execute_tool(req, sess, out)
      [] req.type = "list_servers" ->
             IF out.raises
             THEN to_dict(MCPResponse("error", None, <<"Error listing servers: ", out.msg>>))
             ELSE handle_list_servers(req, sess, out)
      [] req.type = "list_server_tools" -> handle_list_of_server("tools", req, sess, out)
      [] req.type = "list_server_resource_templates" ->
             handle_list_of_server("resource templates", req, sess, out)
      [] req.type = "list_server_resources" ->
             handle_list_of_server("resources", req, sess, out)

\* the handler the dispatch table selects
Dispatch(req, sess, out) ==
    CASE req.type = "execute_tool" -> handle_execute_tool(req, sess, out)
      [] req.type = "list_servers" -> handle_list_servers(req, sess, out)
      [] req.type = "list_server_tools" -> handle_list_of_server("tools", req, sess, out)
      [] req.type = "list_server_resource_templates" ->
             handle_list_of_server("resource templates", req, sess, out)
      [] req.type = "list_server_resources" ->
             handle_list_of_server("resources", req, sess, out)

\* RequestHandler.handle_request: every exception becomes an error response
handle_request(line, sess, out) ==
    IF line.kind = "bad_json"
    THEN to_dict(MCPResponse("error", None, <<"Invalid JSON">>))
    ELSE IF line.kind = "non_object"
    THEN to_dict(MCPResponse("error", None,
             <<"Error processing request: ", "object has no attribute 'get'">>))
    ELSE IF line.type = Unhashable
    THEN to_dict(MCPResponse("error", None,
             <<"Error processing request: ", "unhashable type">>))
    ELSE IF line.type \notin HandlerTypes
    THEN to_dict(MCPResponse("error", None, <<"Unknown request type: ", Str(line.type)>>))
    ELSE LET r == Dispatch(line, sess, out) IN
         IF IsRaise(r)
         THEN to_dict(MCPResponse("error", None, <<"Error processing request: ">> \o r.raise))
         ELSE r

\* whether handling the line calls a method of a session (call_tool, list_tools, ...)
CallsSession(line, sess) ==
    /\ line.kind = "object"
    /\ line.type \in HandlerTypes \ {"list_servers"}
    /\ IF line.type = "execute_tool"
       THEN ExecutePath(line, sess) = "call"
       ELSE ListPath(line, sess) = "call"

\* ------------------------------------------------------------ initial state
NoDict == [status |-> "none"]
NoResult == [status |-> "none", content |-> None, error |-> None]
NoLine == PlainLine("none")
\* no session was called for the request in hand
NoCall == [called |-> FALSE, out |-> SessionReturns(<<>>, <<>>), reg |-> <<>>]

\* How the body of _send_request ended: a value it returned, or an exception
\* it let go. fault records what went wrong on the way, if anything:
\* no_socket, connect_failed, write_failed, read_failed, timeout, eof, unparseable.
Return(resp, fault) == [kind |-> "return", exc |-> "", value |-> resp, fault |-> fault]
Raised(e, fault) == [kind |-> "raise", exc |-> e, value |-> NoResult, fault |-> fault]

\* The configured tool servers, in configuration order (get_all_configs,
\* server.py 40); a config with a url is reached over SSE, the others are spawned.
Configs == <<[name |-> "s1", url |-> Empty], [name |-> "s2", url |-> "http://s2/sse"]>>
Layers == {"transport", "session"}

\* the contexts a successful connect leaves on the exit stack, oldest first
\* (stdio.py 31-35, sse.py 28-32)
Entered(name) == <<[name |-> name, layer |-> "transport"], [name |-> name, layer |-> "session"]>>

RECURSIVE EnteredAll(_)
EnteredAll(names) ==
    IF names = <<>> THEN <<>> ELSE Entered(Head(names)) \o EnteredAll(Tail(names))

\* The daemon after start_server reached serve_forever with the registry sess:
\* every configured server was attempted, those in sess connected.
Serving(sess) ==
    /\ running = TRUE
    /\ server = "open"
    /\ mainPc = "serving"
    /\ cfgIdx = Len(Configs) + 1
    /\ connPc = "idle"
    /\ exit_stack = EnteredAll(sess)
    /\ resource = [n \in ServerNames |->
                     [l \in Layers |-> IF n \in Keys(sess) THEN "open" ELSE "none"]]
    /\ stopPc = "none"
    /\ attempts = [i \in 1..Len(Configs) |->
                     [name |-> Configs[i].name,
                      result |-> IF Configs[i].name \in Keys(sess) THEN "ok" ELSE "failed"]]

\* no client has connected or called yet
\* no document is being encoded or decoded
CodecIdle ==
    /\ codecPc = "idle"
    /\ codecIn = [side |-> "none"]
    /\ codecWire = <<>>
    /\ codecLine = <<>>
    /\ codecOut = [side |-> "none"]

Idle ==
    /\ closePc = "idle"
    /\ pool_size \in 1..MaxPool
    /\ active_connections = 0
    /\ available_connections = <<>>
    /\ pool_lock = NoCaller
    /\ pc = [c \in Callers |-> "idle"]
    /\ held = [c \in Callers |-> NoConn]
    /\ request = [c \in Callers |-> NoLine]
    /\ buffer = [c \in Callers |-> <<>>]
    /\ outcome = [c \in Callers |-> [kind |-> "none", exc |-> "", value |-> NoResult, fault |-> "none"]]
    /\ result = [c \in Callers |-> NoResult]
    /\ acquired = [c \in Callers |-> 0]
    /\ released = [c \in Callers |-> 0]
    /\ daemonUp = TRUE
    /\ nextConn = 1
    /\ closing = [k \in Conns |-> FALSE]
    /\ inbox = [k \in Conns |-> <<>>]
    /\ outbox = [k \in Conns |-> <<>>]
    /\ peerClosed = [k \in Conns |-> FALSE]
    /\ clientClosed = [k \in Conns |-> FALSE]
    /\ srvPc = [k \in Conns |-> "none"]
    /\ srvCur = [k \in Conns |-> NoLine]
    /\ srvResp = [k \in Conns |-> NoDict]
    /\ srvCall = [k \in Conns |-> NoCall]
    /\ srvIn = [k \in Conns |-> <<>>]
    /\ srvOut = [k \in Conns |-> <<>>]
    /\ closeCause = [k \in Conns |-> "none"]
    /\ toolCalls = 0
    /\ wireLog = [k \in Conns |-> <<>>]

Init ==
    /\ Idle
    /\ CodecIdle
    /\ socketExists = TRUE
    /\ sessions \in {<<>>, <<"s1">>, <<"s1", "s2">>}
    /\ Serving(sessions)

\* --------------------------------------- MCPDaemonServer.handle_client
\* faulty variant: the next line is read while the previous request is still in hand
CanReadPipelined(k) == srvPc[k] \in {"read", "handle", "write"}

\* the task is suspended in `await reader.readline()` (server.py 72)
CanRead(k) == srvPc[k] = "read"

\* StreamReader.readline raises ValueError when the line exceeds the limit
ReadlineRaises(line) == line.kind = "oversize"

\* bytes.decode raises UnicodeDecodeError (server.py 76)
DecodeRaises(line) == line.kind = "bad_utf8"

\* the `except Exception` / `finally` of handle_client (server.py 81-85); why is
\* eof (the client closed), read_error (readline raised), request_error (decoding
\* the request line raised), write_error (writing the response raised) or exit
\* (the daemon ended)
ServerCloses(k, why) ==
    /\ srvPc' = [srvPc EXCEPT ![k] = "closed"]
    /\ closeCause' = [closeCause EXCEPT ![k] = why]
    /\ peerClosed' = [peerClosed EXCEPT ![k] = TRUE]

\* readline returns one request line (server.py 72-76)
ServerRead(k) ==
    /\ daemonUp
    /\ CanRead(k)
    /\ inbox[k] # <<>>
    /\ LET line == Head(inbox[k]) IN
       /\ inbox' = [inbox EXCEPT ![k] = Tail(@)]
       /\ srvIn' = [srvIn EXCEPT ![k] = Append(@, line)]
       /\ srvCur' = [srvCur EXCEPT ![k] = line]
       /\ srvCall' = [srvCall EXCEPT ![k] = NoCall]
       /\ IF ReadlineRaises(line) \/ DecodeRaises(line)
          THEN ServerCloses(k, IF ReadlineRaises(line) THEN "read_error" ELSE "request_error")
          ELSE /\ srvPc' = [srvPc EXCEPT ![k] = "handle"]
               /\ UNCHANGED <<closeCause, peerClosed>>
    /\ UNCHANGED <<poolVars, callerVars, envVars, closing, outbox, clientClosed,
                   srvResp, srvOut, handlerVars, lifeVars, wireLog, codecVars, closePc>>

\* readline returns b'' : the client closed its end (server.py 73-74)
ServerEOF(k) ==
    /\ daemonUp
    /\ CanRead(k)
    /\ inbox[k] = <<>>
    /\ clientClosed[k]
    /\ ServerCloses(k, "eof")
    /\ UNCHANGED <<poolVars, callerVars, envVars, closing, inbox, outbox, clientClosed,
                   srvCur, srvResp, srvCall, srvIn, srvOut, handlerVars, lifeVars, wireLog, codecVars, closePc>>

\* a session is usable while its two contexts are open (stdio.py 31-37)
SessionLive(name) == \A l \in Layers : resource[name][l] = "open"

\* faulty variant: one request is handled at a time in the whole daemon
CanHandleOneAtATime(k) ==
    /\ srvPc[k] = "handle"
    /\ \A j \in Conns \ {k} : srvPc[j] # "hung"

\* each connection's task awaits its own handle_request; nothing is shared
\* between the tasks but the registry (server.py 65-77)
CanHandle(k) == srvPc[k] = "handle"

\* faulty variant: a server whose call raised is dropped from the registry
HandleWithDropsFailed(k, outs) ==
    /\ daemonUp
    /\ CanHandle(k)
    /\ LET calls == CallsSession(srvCur[k], sessions) IN
       /\ \E out \in outs :
            /\ (calls /\ ~SessionLive(srvCur[k].server_name)) => (out.raises \/ out.hangs)
            /\ srvCall' = [srvCall EXCEPT ![k] =
                              [called |-> calls,
                               out |-> IF calls THEN out ELSE NoCall.out,
                               reg |-> sessions]]
            /\ IF calls /\ out.hangs
               THEN /\ srvPc' = [srvPc EXCEPT ![k] = "hung"]
                    /\ UNCHANGED srvResp
               ELSE /\ srvPc' = [srvPc EXCEPT ![k] = "write"]
                    /\ srvResp' = [srvResp EXCEPT ![k] =
                                      handle_request(srvCur[k], sessions, out)]
            /\ sessions' = IF calls /\ out.raises
                           THEN SelectSeq(sessions,
                                    LAMBDA n : n # srvCur[k].server_name)
                           ELSE sessions
       /\ toolCalls' = toolCalls + (IF calls THEN 1 ELSE 0)
    /\ UNCHANGED <<poolVars, callerVars, envVars, connVars, srvCur, srvIn, srvOut,
                   closeCause, lifeVars, wireLog, codecVars, closePc>>

\* `response = await self.request_handler.handle_request(message)` (server.py 77);
\* a call on a session that never returns leaves the task suspended there
HandleWith(k, outs) ==
    /\ daemonUp
    /\ CanHandle(k)
    /\ LET calls == CallsSession(srvCur[k], sessions) IN
       /\ \E out \in outs :
            /\ (calls /\ ~SessionLive(srvCur[k].server_name)) => (out.raises \/ out.hangs)
            /\ srvCall' = [srvCall EXCEPT ![k] =
                              [called |-> calls,
                               out |-> IF calls THEN out ELSE NoCall.out,
                               reg |-> sessions]]
            /\ IF calls /\ out.hangs
               THEN /\ srvPc' = [srvPc EXCEPT ![k] = "hung"]
                    /\ UNCHANGED srvResp
               ELSE /\ srvPc' = [srvPc EXCEPT ![k] = "write"]
                    /\ srvResp' = [srvResp EXCEPT ![k] =
                                      handle_request(srvCur[k], sessions, out)]
       /\ toolCalls' = toolCalls + (IF calls THEN 1 ELSE 0)
    /\ UNCHANGED <<poolVars, callerVars, envVars, connVars, srvCur, srvIn, srvOut,
                   closeCause, sessions, lifeVars, wireLog, codecVars, closePc>>

ServerHandle(k) == HandleWith(k, SessionOutcomes)

\* `writer.write(json.dumps(response).encode() + b'\n'); await writer.drain()`
\* (server.py 79-80); writing to a connection the client closed raises
ServerWrite(k) ==
    /\ daemonUp
    /\ srvPc[k] = "write"
    /\ IF clientClosed[k]
       THEN /\ ServerCloses(k, "write_error")
            /\ UNCHANGED <<outbox, srvOut>>
       ELSE /\ outbox' = [outbox EXCEPT ![k] = Append(@, [doc |-> srvResp[k], part |-> "whole"])]
            /\ srvOut' = [srvOut EXCEPT ![k] =
                             Append(@, [req |-> srvCur[k], resp |-> srvResp[k],
                                        call |-> srvCall[k]])]
            /\ srvPc' = [srvPc EXCEPT ![k] = "read"]
            /\ UNCHANGED <<closeCause, peerClosed>>
    /\ UNCHANGED <<poolVars, callerVars, envVars, closing, inbox, clientClosed,
                   srvCur, srvResp, srvCall, srvIn, handlerVars, lifeVars, wireLog, codecVars, closePc>>

\* The daemon process ends (stop_server, or a crash): no connection is served
\* any more; stop_server removes the socket file, a crash leaves it behind.
DaemonExit ==
    /\ daemonUp
    /\ daemonUp' = FALSE
    /\ \E removed \in BOOLEAN : socketExists' = (socketExists /\ ~removed)
    /\ srvPc' = [k \in Conns |-> IF srvPc[k] \in {"none", "closed"} THEN srvPc[k] ELSE "closed"]
    /\ closeCause' = [k \in Conns |->
                        IF srvPc[k] \in {"none", "closed"} THEN closeCause[k] ELSE "exit"]
    /\ peerClosed' = [k \in Conns |-> peerClosed[k] \/ srvPc[k] # "none"]
    /\ UNCHANGED <<poolVars, callerVars, nextConn, closing, inbox, outbox, clientClosed,
                   srvCur, srvResp, srvCall, srvIn, srvOut, handlerVars, lifeVars, wireLog, codecVars, closePc>>

\* The peer closed with a request still unread: the client's transport sees a
\* connection reset and from then on writer.is_closing() is true.
ConnReset(k) ==
    /\ peerClosed[k]
    /\ inbox[k] # <<>>
    /\ ~closing[k]
    /\ closing' = [closing EXCEPT ![k] = TRUE]
    /\ UNCHANGED <<poolVars, callerVars, envVars, inbox, outbox, peerClosed, clientClosed,
                   srvVars, handlerVars, lifeVars, wireLog, codecVars, closePc>>

\* ------------------------------------------------------ ConnectionPool
\* faulty variant: the capacity test off by one
CanCreateOffByOne == active_connections <= pool_size

\* `if self.active_connections < self.pool_size` (connection_pool.py 43)
CanCreate == active_connections < pool_size

\* faulty variant: the idle connection is read but left in the queue
QueuePeek(q) == q

\* what asyncio.Queue.get leaves in the queue (connection_pool.py 39, 58)
QueueAfterGet(q) == Tail(q)

\* faulty variant: every released connection is treated as closing and discarded
IsClosingAlways(k) == TRUE

\* `if writer.is_closing()` (connection_pool.py 69)
IsClosing(k) == closing[k]

\* the caller now holds connection k
Acquire(c, k) ==
    /\ held' = [held EXCEPT ![c] = k]
    /\ acquired' = [acquired EXCEPT ![c] = @ + 1]
    /\ pc' = [pc EXCEPT ![c] = "send"]

\* `return await asyncio.wait_for(self.available_connections.get(), 0.1)`:
\* an idle connection is there (connection_pool.py 39)
TakeIdle(c) ==
    /\ pc[c] = "try_get"
    /\ available_connections # <<>>
    /\ Acquire(c, Head(available_connections))
    /\ available_connections' = QueueAfterGet(available_connections)
    /\ UNCHANGED <<pool_size, active_connections, pool_lock, request, buffer, outcome,
                   result, released, envVars, connVars, srvVars, handlerVars, lifeVars, wireLog, codecVars, closePc>>

\* the 0.1 s wait ran out with the queue still empty (connection_pool.py 40-42)
GetTimeout(c) ==
    /\ pc[c] = "try_get"
    /\ available_connections = <<>>
    /\ pc' = [pc EXCEPT ![c] = "lock_wait"]
    /\ UNCHANGED <<poolVars, held, request, buffer, outcome, result, acquired, released,
                   envVars, connVars, srvVars, handlerVars, lifeVars, wireLog, codecVars, closePc>>

\* `async with self.pool_lock:` then the capacity test; a caller that may
\* create a connection keeps the lock across the connect (connection_pool.py 42-47),
\* the others leave the block at once (53-55)
LockAndCheck(c) ==
    /\ pc[c] = "lock_wait"
    /\ pool_lock = NoCaller
    /\ IF CanCreate
       THEN /\ active_connections' = active_connections + 1
            /\ pool_lock' = c
            /\ pc' = [pc EXCEPT ![c] = "opening"]
       ELSE /\ pc' = [pc EXCEPT ![c] = "wait_get"]
            /\ UNCHANGED <<active_connections, pool_lock>>
    /\ UNCHANGED <<pool_size, available_connections, held, request, buffer, outcome,
                   result, acquired, released, envVars, connVars, srvVars, handlerVars, lifeVars,
                   wireLog, codecVars, closePc>>

\* faulty variant: only json.JSONDecodeError is caught
SendRequestResultJsonOnly(o) ==
    IF o.kind = "return" THEN o.value
    ELSE IF o.exc = "JSONDecodeError"
    THEN DaemonError(<<"Invalid JSON response: ", o.exc>>)
    ELSE [status |-> "raised", content |-> None, error |-> <<o.exc>>]

\* the exception of _send_request's `try` turned into a response (main.py 185-196)
SendRequestResult(o) ==
    IF o.kind = "return" THEN o.value
    ELSE IF o.exc = "JSONDecodeError"
    THEN DaemonError(<<"Invalid JSON response: ", o.exc>>)
    ELSE IF o.exc \in {"OSError", "ConnectionResetError"}
    THEN DaemonError(<<"Communication error: ", o.exc>>)
    ELSE [status |-> "raised", content |-> None, error |-> <<o.exc>>]

\* faulty variant: the count stays raised when the connect fails
OpenFailedKeepsCount(n) == n

\* `self.active_connections -= 1; raise e` (connection_pool.py 49-52)
OpenFailed(n) == n - 1

\* `reader, writer = await asyncio.open_unix_connection(self.socket_path)`
\* (connection_pool.py 46-52); the connect succeeds iff the daemon listens
OpenConnection(c) ==
    /\ pc[c] = "opening"
    /\ pool_lock' = NoCaller
    /\ IF daemonUp
       THEN /\ Acquire(c, nextConn)
            /\ nextConn' = nextConn + 1
            /\ srvPc' = [srvPc EXCEPT ![nextConn] = "read"]
            /\ UNCHANGED <<active_connections, outcome, result>>
       ELSE /\ active_connections' = OpenFailed(active_connections)
            /\ outcome' = [outcome EXCEPT ![c] = Raised("OSError", "connect_failed")]
            /\ result' = [result EXCEPT ![c] =
                             SendRequestResult(Raised("OSError", "connect_failed"))]
            /\ pc' = [pc EXCEPT ![c] = "done"]
            /\ UNCHANGED <<held, acquired, nextConn, srvPc>>
    /\ UNCHANGED <<pool_size, available_connections, request, buffer, released,
                   socketExists, daemonUp, connVars, srvCur, srvResp, srvCall, srvIn, srvOut,
                   closeCause, handlerVars, lifeVars, wireLog, codecVars, closePc>>

\* `return await self.available_connections.get()` (connection_pool.py 58)
WaitGet(c) ==
    /\ pc[c] = "wait_get"
    /\ available_connections # <<>>
    /\ Acquire(c, Head(available_connections))
    /\ available_connections' = QueueAfterGet(available_connections)
    /\ UNCHANGED <<pool_size, active_connections, pool_lock, request, buffer, outcome,
                   result, released, envVars, connVars, srvVars, handlerVars, lifeVars, wireLog, codecVars, closePc>>

\* ----------------------------------------- MCPDaemonClient._send_request
\* faulty variant: the existence test is left out
SocketCheckSkipped == FALSE

\* `if not os.path.exists(self.socket_path)` (main.py 112)
SocketMissing == ~socketExists

SocketNotFound ==
    DaemonError(<<"MCP daemon socket not found. Make sure the daemon is running.">>)

\* _send_request is called (main.py 101-119)
Call(c, req) ==
    /\ pc[c] = "idle"
    /\ request' = [request EXCEPT ![c] = req]
    /\ IF SocketMissing
       THEN /\ outcome' = [outcome EXCEPT ![c] = Return(SocketNotFound, "no_socket")]
            /\ result' = [result EXCEPT ![c] = SocketNotFound]
            /\ pc' = [pc EXCEPT ![c] = "done"]
       ELSE /\ pc' = [pc EXCEPT ![c] = "try_get"]
            /\ UNCHANGED <<outcome, result>>
    /\ UNCHANGED <<poolVars, held, buffer, acquired, released, envVars,
                   connVars, srvVars, handlerVars, lifeVars, wireLog, codecVars, closePc>>

\* the `async with` block is left with outcome o; `finally` runs next (main.py 97)
FinishExchange(c, o) ==
    /\ outcome' = [outcome EXCEPT ![c] = o]
    /\ pc' = [pc EXCEPT ![c] = "release"]

\* `writer.write(...); await writer.drain()` (main.py 121-122); on a dead
\* connection the transport is force-closed and drain raises
SendBytes(c) ==
    /\ pc[c] = "send"
    /\ LET k == held[c] IN
       IF peerClosed[k] \/ closing[k]
       THEN /\ closing' = [closing EXCEPT ![k] = TRUE]
            /\ FinishExchange(c, Raised("ConnectionResetError", "write_failed"))
            /\ UNCHANGED <<inbox, wireLog>>
       ELSE /\ inbox' = [inbox EXCEPT ![k] = Append(@, request[c])]
            /\ wireLog' = [wireLog EXCEPT ![k] = Append(@, <<"request", c>>)]
            /\ pc' = [pc EXCEPT ![c] = "recv"]
            /\ UNCHANGED <<closing, outcome>>
    /\ UNCHANGED <<poolVars, held, request, buffer, result, acquired, released, envVars,
                   outbox, peerClosed, clientClosed, srvVars, handlerVars, lifeVars,
                   codecVars, closePc>>

\* `json.loads(buffer.decode())` succeeds iff the bytes read so far are exactly
\* one complete JSON document (main.py 139, 148, 170)
Parses(buf) ==
    \/ Len(buf) = 1 /\ buf[1].part = "whole"
    \/ Len(buf) = 2 /\ buf[1].part = "head" /\ buf[2].part = "tail"

\* the document json.loads returns
Parsed(buf) == buf[1].doc

\* what one `reader.read(buffer_size)` can return: the first n units that
\* arrived, the last of them possibly cut in the middle of a document
ChunkTaken(box, n, cut) ==
    IF cut /\ box[n].part = "whole"
    THEN SubSeq(box, 1, n - 1) \o <<[doc |-> box[n].doc, part |-> "head"]>>
    ELSE SubSeq(box, 1, n)

ChunkLeft(box, n, cut) ==
    IF cut /\ box[n].part = "whole"
    THEN <<[doc |-> box[n].doc, part |-> "tail"]>> \o SubSeq(box, n + 1, Len(box))
    ELSE SubSeq(box, n + 1, Len(box))

\* faulty variant: the loop keeps reading although the buffer parses
CompleteMessageIgnored(buf) == FALSE

\* the `try: json.loads(...) ... return` after each chunk (main.py 138-143)
CompleteMessage(buf) == Parses(buf)

\* a chunk arrives; return as soon as the buffer parses (main.py 132-143)
ReadChunk(c) ==
    /\ pc[c] = "recv"
    /\ LET k == held[c] IN
       /\ ~closing[k]
       /\ outbox[k] # <<>>
       /\ \E n \in 1..Len(outbox[k]), cut \in BOOLEAN :
            LET buf == buffer[c] \o ChunkTaken(outbox[k], n, cut) IN
            /\ outbox' = [outbox EXCEPT ![k] = ChunkLeft(outbox[k], n, cut)]
            /\ buffer' = [buffer EXCEPT ![c] = buf]
            /\ IF CompleteMessage(buf)
               THEN /\ FinishExchange(c, Return(from_dict(Parsed(buf)), "none"))
                    /\ wireLog' = [wireLog EXCEPT ![k] = Append(@, <<"response", c>>)]
               ELSE UNCHANGED <<pc, outcome, wireLog>>
    /\ UNCHANGED <<poolVars, held, request, result, acquired, released, envVars,
                   closing, inbox, peerClosed, clientClosed, srvVars, handlerVars, lifeVars,
                   codecVars, closePc>>

\* the 10 s wait for a chunk ran out (main.py 144-159)
ReadTimeout(c) ==
    /\ pc[c] = "recv"
    /\ LET k == held[c] IN
       /\ ~closing[k]
       /\ ~peerClosed[k]
       /\ outbox[k] = <<>>
    /\ FinishExchange(c, Return(
           IF buffer[c] # <<>>
           THEN IF Parses(buffer[c])
                THEN from_dict(Parsed(buffer[c]))
                ELSE DaemonError(<<"Timeout waiting for complete response from MCP daemon">>)
           ELSE DaemonError(<<"Timeout waiting for response from MCP daemon">>),
           "timeout"))
    /\ UNCHANGED <<poolVars, held, request, buffer, result, acquired, released, envVars,
                   connVars, srvVars, handlerVars, lifeVars, wireLog, codecVars, closePc>>

\* read returns b'' : end of stream (main.py 133-134, 161-183)
ReadEOF(c) ==
    /\ pc[c] = "recv"
    /\ LET k == held[c] IN
       /\ ~closing[k]
       /\ peerClosed[k]
       /\ outbox[k] = <<>>
    /\ FinishExchange(c, Return(
           IF buffer[c] = <<>>
           THEN DaemonError(<<"No response from MCP daemon">>)
           ELSE IF Parses(buffer[c])
                THEN from_dict(Parsed(buffer[c]))
                ELSE DaemonError(<<"Invalid JSON response: ", "JSONDecodeError">>),
           IF buffer[c] = <<>> THEN "eof" ELSE "unparseable"))
    /\ UNCHANGED <<poolVars, held, request, buffer, result, acquired, released, envVars,
                   connVars, srvVars, handlerVars, lifeVars, wireLog, codecVars, closePc>>

\* read raises: the connection was reset (main.py 132, 191)
ReadError(c) ==
    /\ pc[c] = "recv"
    /\ closing[held[c]]
    /\ FinishExchange(c, Raised("ConnectionResetError", "read_failed"))
    /\ UNCHANGED <<poolVars, held, request, buffer, result, acquired, released, envVars,
                   connVars, srvVars, handlerVars, lifeVars, wireLog, codecVars, closePc>>

\* faulty variant: the release sits after the `yield` instead of in a `finally`
ReleasesAfterReturnOnly(o) == o.kind = "return"

\* the `finally` of MCPDaemonClient.get_connection releases the connection
\* whatever way the block was left (main.py 97-99)
ReleasesAfter(o) == TRUE

\* faulty variant: a closing connection is dropped without the count being lowered
DiscardedKeepsCount(n) == n

\* `self.active_connections -= 1` for a connection that is closing
\* (connection_pool.py 69-72)
Discarded(n) == n - 1

\* ConnectionPool.release_connection (connection_pool.py 60-75), then
\* _send_request returns (main.py 185-196)
Release(c) ==
    /\ pc[c] = "release"
    /\ LET k == held[c] IN
       IF ReleasesAfter(outcome[c])
       THEN /\ IF IsClosing(k)
               THEN /\ pool_lock = NoCaller
                    /\ active_connections' = Discarded(active_connections)
                    /\ UNCHANGED available_connections
               ELSE /\ available_connections' = Append(available_connections, k)
                    /\ UNCHANGED active_connections
            /\ released' = [released EXCEPT ![c] = @ + 1]
       ELSE UNCHANGED <<active_connections, available_connections, released>>
    /\ held' = [held EXCEPT ![c] = NoConn]
    /\ result' = [result EXCEPT ![c] = SendRequestResult(outcome[c])]
    /\ pc' = [pc EXCEPT ![c] = "done"]
    /\ UNCHANGED <<pool_size, pool_lock, request, buffer, outcome, acquired, envVars,
                   connVars, srvVars, handlerVars, lifeVars, wireLog, codecVars, closePc>>

\* ------------------------------ the client's convenience operations
\* DaemonResponse.is_success
is_success(r) == r.status = "success"

\* what a list operation hands to its caller: a list, a string or None
ListValue(items) == [kind |-> "list", items |-> items, text |-> <<>>]
StrValue(text) == [kind |-> "str", items |-> <<>>, text |-> text]

\* DaemonResponse.get_parsed_content: None for a content that is None or
\* empty, the decoded value when the content is JSON, else the content itself
get_parsed_content(r) ==
    IF r.content = None \/ r.content = <<>> THEN [kind |-> "none", items |-> <<>>, text |-> <<>>]
    ELSE IF \E n \in 0..Len(r.content) : IsJsonList(r.content, n)
    THEN ListValue(JsonList(r.content,
             CHOOSE n \in 0..Len(r.content) : IsJsonList(r.content, n)))
    ELSE StrValue(r.content)

\* `return response.get_parsed_content() if response.is_success() else []`
\* (main.py 291, 309, 327, 345)
ListOperation(r) == IF is_success(r) THEN get_parsed_content(r) ELSE ListValue(<<>>)

\* the client operations that return a list
ListTypes == {"list_servers", "list_server_tools", "list_server_resource_templates",
              "list_server_resources"}

\* one step of caller c
CallerStep(c) ==
    \/ \E req \in ClientRequests : Call(c, req)
    \/ TakeIdle(c)
    \/ GetTimeout(c)
    \/ LockAndCheck(c)
    \/ OpenConnection(c)
    \/ WaitGet(c)
    \/ SendBytes(c)
    \/ ReadChunk(c)
    \/ ReadTimeout(c)
    \/ ReadEOF(c)
    \/ ReadError(c)
    \/ Release(c)

Next ==
    \/ \E c \in Callers : CallerStep(c)
    \/ \E k \in Conns : ServerRead(k)
    \/ \E k \in Conns : ServerHandle(k)
    \/ \E k \in Conns : ServerWrite(k)
    \/ \E k \in Conns : ConnReset(k)
    \/ DaemonExit

Spec == Init /\ [][Next]_vars

\* every caller task keeps being scheduled by the event loop
FairSpec == Spec /\ \A c \in Callers : WF_vars(CallerStep(c))

\* ------------------------------------------ MCPDaemonClient.disconnect
\* `await self.connection_pool.close_all()` is called (main.py 81-83), from a
\* task of its own while send_request calls may be under way
CloseAllCall ==
    /\ closePc = "idle"
    /\ closePc' = "drain"
    /\ UNCHANGED <<poolVars, callerVars, envVars, connVars, srvVars, handlerVars, lifeVars,
                   wireLog, codecVars>>

\* `while not self.available_connections.empty():` takes the next idle
\* connection and closes it, `await writer.wait_closed()`; with the queue
\* empty the loop is left (connection_pool.py 80-83)
CloseAllDrain ==
    /\ closePc = "drain"
    /\ IF available_connections # <<>>
       THEN LET k == Head(available_connections) IN
            /\ available_connections' = QueueAfterGet(available_connections)
            /\ closing' = [closing EXCEPT ![k] = TRUE]
            /\ clientClosed' = [clientClosed EXCEPT ![k] = TRUE]
            /\ UNCHANGED closePc
       ELSE /\ closePc' = "reset"
            /\ UNCHANGED <<available_connections, closing, clientClosed>>
    /\ UNCHANGED <<pool_size, active_connections, pool_lock, callerVars, envVars, inbox,
                   outbox, peerClosed, srvVars, handlerVars, lifeVars, wireLog, codecVars>>

\* `async with self.pool_lock: self.active_connections = 0`
\* (connection_pool.py 86-87)
CloseAllReset ==
    /\ closePc = "reset"
    /\ pool_lock = NoCaller
    /\ active_connections' = 0
    /\ closePc' = "done"
    /\ UNCHANGED <<pool_size, available_connections, pool_lock, callerVars, envVars, connVars,
                   srvVars, handlerVars, lifeVars, wireLog, codecVars>>

\* the requests the callers send while the pool is being closed: list_servers()
\* and extract_tool_use(content), whose request has neither server nor tool
PoolRequests ==
    { ObjectLine("list_servers", Missing, Missing),
      ObjectLine("extract_tool_use", Missing, Missing) }

\* one step of caller c
PoolCallerStep(c) ==
    \/ \E req \in PoolRequests : Call(c, req)
    \/ TakeIdle(c)
    \/ GetTimeout(c)
    \/ LockAndCheck(c)
    \/ OpenConnection(c)
    \/ WaitGet(c)
    \/ SendBytes(c)
    \/ ReadChunk(c)
    \/ ReadTimeout(c)
    \/ ReadEOF(c)
    \/ ReadError(c)
    \/ Release(c)

InitP == Init /\ sessions = <<"s1">>

NextP ==
    \/ \E c \in Callers : PoolCallerStep(c)
    \/ CloseAllCall
    \/ CloseAllDrain
    \/ CloseAllReset
    \/ \E k \in Conns : ServerRead(k)
    \/ \E k \in Conns : ServerEOF(k)
    \/ \E k \in Conns : ServerHandle(k)
    \/ \E k \in Conns : ServerWrite(k)
    \/ \E k \in Conns : ConnReset(k)
    \/ DaemonExit

\* the client with disconnect() callable at any time
SpecP == InitP /\ [][NextP]_vars

\* -------------------------------------------- raw clients on the socket
\* the request lines written so far on all connections
RECURSIVE LinesWritten(_)
LinesWritten(k) ==
    IF k = 0 THEN 0 ELSE Len(srvIn[k]) + Len(inbox[k]) + LinesWritten(k - 1)

\* a local process connects to the socket; start_unix_server starts one
\* handle_client task for it (server.py 96-99)
RawConnect ==
    /\ daemonUp
    /\ server = "open"
    /\ nextConn \in Conns
    /\ srvPc' = [srvPc EXCEPT ![nextConn] = "read"]
    /\ nextConn' = nextConn + 1
    /\ UNCHANGED <<poolVars, callerVars, socketExists, daemonUp, connVars, srvCur,
                   srvResp, srvCall, srvIn, srvOut, closeCause, handlerVars, lifeVars, wireLog, codecVars, closePc>>

\* the process writes one line, whether or not earlier ones were answered
RawWrite(k, line) ==
    /\ srvPc[k] # "none"
    /\ ~clientClosed[k]
    /\ ~peerClosed[k]
    /\ LinesWritten(NumCallers) < MaxLines
    /\ inbox' = [inbox EXCEPT ![k] = Append(@, line)]
    /\ UNCHANGED <<poolVars, callerVars, envVars, closing, outbox, peerClosed,
                   clientClosed, srvVars, handlerVars, lifeVars, wireLog, codecVars, closePc>>

\* the process closes its end of the connection
RawClose(k) ==
    /\ srvPc[k] # "none"
    /\ ~clientClosed[k]
    /\ clientClosed' = [clientClosed EXCEPT ![k] = TRUE]
    /\ UNCHANGED <<poolVars, callerVars, envVars, closing, inbox, outbox, peerClosed,
                   srvVars, handlerVars, lifeVars, wireLog, codecVars, closePc>>

InitH == Init /\ pool_size = 1

NextH ==
    \/ RawConnect
    \/ \E k \in Conns, line \in RawLines : RawWrite(k, line)
    \/ \E k \in Conns : RawClose(k)
    \/ \E k \in Conns : ServerRead(k)
    \/ \E k \in Conns : ServerEOF(k)
    \/ \E k \in Conns : ServerHandle(k)
    \/ \E k \in Conns : ServerWrite(k)

SpecH == InitH /\ [][NextH]_vars

\* ------------------------------------------------ the daemon's life cycle
\* The daemon process was started: nothing is bound or connected yet; a socket
\* file of an earlier run may still lie at the path.
InitD ==
    /\ Idle
    /\ CodecIdle
    /\ pool_size = 1
    /\ socketExists \in BOOLEAN
    /\ sessions = <<>>
    /\ running = FALSE
    /\ server = "none"
    /\ mainPc = "start"
    /\ cfgIdx = 1
    /\ connPc = "idle"
    /\ exit_stack = <<>>
    /\ resource = [n \in ServerNames |-> [l \in Layers |-> "none"]]
    /\ stopPc = "none"
    /\ attempts = <<>>

clientVars == <<poolVars, callerVars, nextConn, connVars, srvCur, srvResp, srvCall,
                srvIn, srvOut, toolCalls, wireLog, codecVars, closePc>>

\* `if os.path.exists(...): os.unlink(...)` (server.py 91-93)
StartRemoveStale ==
    /\ daemonUp
    /\ mainPc = "start"
    /\ socketExists' = FALSE
    /\ mainPc' = "bind"
    /\ UNCHANGED <<clientVars, daemonUp, srvPc, closeCause, sessions, running, server,
                   cfgIdx, connPc, exit_stack, resource, stopPc, attempts>>

\* `self.server = await asyncio.start_unix_server(...)` (server.py 96-99): the
\* socket is bound and listened on, and connections are accepted from then on
StartListen ==
    /\ daemonUp
    /\ mainPc = "bind"
    /\ socketExists' = TRUE
    /\ server' = "open"
    /\ mainPc' = "chmod"
    /\ UNCHANGED <<clientVars, daemonUp, srvPc, closeCause, sessions, running,
                   cfgIdx, connPc, exit_stack, resource, stopPc, attempts>>

\* `os.chmod(self.socket_path, 0o777)`, `self.running = True`, the signal
\* handlers are installed (server.py 102-113); no await in between
StartChmod ==
    /\ daemonUp
    /\ mainPc = "chmod"
    /\ running' = TRUE
    /\ mainPc' = "connecting"
    /\ UNCHANGED <<clientVars, envVars, srvPc, closeCause, sessions, server,
                   cfgIdx, connPc, exit_stack, resource, stopPc, attempts>>

\* the config the loop of connect_to_all_servers is at
CurrentConfig == Configs[cfgIdx]

\* the loop takes the next config and calls connect (server.py 42-49, 52-59)
BeginAttempt ==
    /\ daemonUp
    /\ mainPc = "connecting"
    /\ connPc = "idle"
    /\ cfgIdx <= Len(Configs)
    /\ attempts' = Append(attempts, [name |-> CurrentConfig.name, result |-> "pending"])
    /\ connPc' = "transport"
    /\ UNCHANGED <<clientVars, envVars, srvPc, closeCause, sessions, running, server,
                   mainPc, cfgIdx, exit_stack, resource, stopPc>>

\* `except Exception: ... return None` (stdio.py 42-47, sse.py 39-44), then
\* `if session:` is false (server.py 50, 60): nothing is registered, and
\* nothing that was entered on the exit stack is taken off it
AttemptFails ==
    /\ attempts' = [attempts EXCEPT ![Len(attempts)].result = "failed"]
    /\ connPc' = "sleep"
    /\ UNCHANGED sessions

\* a context is entered and pushed on the shared exit stack
EnterContext(layer) ==
    /\ resource' = [resource EXCEPT ![CurrentConfig.name][layer] = "open"]
    /\ exit_stack' = Append(exit_stack, [name |-> CurrentConfig.name, layer |-> layer])

\* `streams = await self.exit_stack.enter_async_context(stdio_client(...))`
\* or sse_client(...) (stdio.py 31, sse.py 28): the process is spawned / the
\* stream is opened, or the call raises
EnterTransport ==
    /\ daemonUp
    /\ connPc = "transport"
    /\ \E ok \in BOOLEAN :
         IF ok THEN /\ EnterContext("transport")
                    /\ connPc' = "session"
                    /\ UNCHANGED <<attempts, sessions>>
               ELSE /\ AttemptFails
                    /\ UNCHANGED <<resource, exit_stack>>
    /\ UNCHANGED <<clientVars, envVars, srvPc, closeCause, running, server,
                   mainPc, cfgIdx, stopPc>>

\* `session = await self.exit_stack.enter_async_context(ClientSession(*streams))`
\* (stdio.py 34, sse.py 31)
EnterSession ==
    /\ daemonUp
    /\ connPc = "session"
    /\ \E ok \in BOOLEAN :
         IF ok THEN /\ EnterContext("session")
                    /\ connPc' = "init"
                    /\ UNCHANGED <<attempts, sessions>>
               ELSE /\ AttemptFails
                    /\ UNCHANGED <<resource, exit_stack>>
    /\ UNCHANGED <<clientVars, envVars, srvPc, closeCause, running, server,
                   mainPc, cfgIdx, stopPc>>

\* faulty variant: registering a server replaces the registry
RegisteredAlone(sess, name) == <<name>>

\* `self.sessions[config.name] = session` (server.py 51, 61)
Registered(sess, name) ==
    IF name \in Keys(sess) THEN sess ELSE Append(sess, name)

\* `await session.initialize()`, `return ServerSession(...)` (stdio.py 37-40,
\* sse.py 34-37) and `self.sessions[config.name] = session` (server.py 50-51, 60-61)
Initialize ==
    /\ daemonUp
    /\ connPc = "init"
    /\ \E ok \in BOOLEAN :
         IF ok THEN /\ sessions' = Registered(sessions, CurrentConfig.name)
                    /\ attempts' = [attempts EXCEPT ![Len(attempts)].result = "ok"]
                    /\ connPc' = "sleep"
               ELSE AttemptFails
    /\ UNCHANGED <<clientVars, envVars, srvPc, closeCause, running, server,
                   mainPc, cfgIdx, exit_stack, resource, stopPc>>

\* faulty variant: a failed attempt ends the loop
AfterAttemptStopsOnFailure(idx, res) ==
    IF res = "failed" THEN Len(Configs) + 1 ELSE idx + 1

\* the loop goes on to the next config whatever connect returned (server.py 42, 63)
AfterAttempt(idx, res) == idx + 1

\* `await asyncio.sleep(1)` is over (server.py 63)
SleepDone ==
    /\ daemonUp
    /\ connPc = "sleep"
    /\ cfgIdx' = AfterAttempt(cfgIdx, attempts[Len(attempts)].result)
    /\ connPc' = "idle"
    /\ UNCHANGED <<clientVars, envVars, srvPc, closeCause, sessions, running, server,
                   mainPc, exit_stack, resource, stopPc, attempts>>

\* faulty variant: the loop is left after the first config
StartupOverAfterFirst == connPc = "idle" /\ cfgIdx > 1

\* connect_to_all_servers has gone through every config and returned
\* (server.py 42, 116)
StartupOver == connPc = "idle" /\ cfgIdx > Len(Configs)

\* start_server returns, run_daemon returns and asyncio.run ends the process
\* (server.py 119-125, main.py 9-12, 47): the tasks still running are
\* cancelled, every open connection is closed
ProcessEnds ==
    /\ mainPc' = "returned"
    /\ daemonUp' = FALSE
    /\ stopPc' = (IF stopPc \in {"start", "aclose", "aclose_exc"} THEN "cancelled" ELSE stopPc)
    /\ srvPc' = [k \in Conns |-> IF srvPc[k] \in {"none", "closed"} THEN srvPc[k] ELSE "closed"]
    /\ closeCause' = [k \in Conns |->
                        IF srvPc[k] \in {"none", "closed"} THEN closeCause[k] ELSE "exit"]
    /\ peerClosed' = [k \in Conns |-> peerClosed[k] \/ srvPc[k] # "none"]

\* `await self.server.serve_forever()` (server.py 119): the loop is over and
\* the server is served until it is closed; on a server that stop_server
\* closed already the call raises and start_server returns False (123-125)
ServeForever ==
    /\ daemonUp
    /\ mainPc = "connecting"
    /\ StartupOver
    /\ IF server = "open"
       THEN /\ mainPc' = "serving"
            /\ UNCHANGED <<daemonUp, stopPc, srvPc, closeCause, peerClosed>>
       ELSE ProcessEnds
    /\ UNCHANGED <<poolVars, callerVars, socketExists, nextConn, closing, inbox, outbox,
                   clientClosed, srvCur, srvResp, srvCall, srvIn, srvOut, handlerVars,
                   running, server, cfgIdx, connPc, exit_stack, resource, attempts, wireLog, codecVars, closePc>>

\* serve_forever ends because stop_server closed the server (server.py 119-121, 136)
MainReturns ==
    /\ daemonUp
    /\ mainPc = "serving"
    /\ server = "closed"
    /\ ProcessEnds
    /\ UNCHANGED <<poolVars, callerVars, socketExists, nextConn, closing, inbox, outbox,
                   clientClosed, srvCur, srvResp, srvCall, srvIn, srvOut, handlerVars,
                   running, server, cfgIdx, connPc, exit_stack, resource, attempts, wireLog, codecVars, closePc>>

\* SIGINT or SIGTERM arrives: the handler creates the stop_server task
\* (server.py 110-113)
Signal ==
    /\ daemonUp
    /\ running
    /\ stopPc = "none"
    /\ stopPc' = "start"
    /\ UNCHANGED <<clientVars, envVars, srvPc, closeCause, sessions, running, server,
                   mainPc, cfgIdx, connPc, exit_stack, resource, attempts>>

\* `self.sessions.clear()`, the socket file is removed, `self.running = False`
\* (server.py 142-151); no await in between
StopFinish ==
    /\ sessions' = <<>>
    /\ socketExists' = FALSE
    /\ running' = FALSE
    /\ stopPc' = "done"

\* `self.server.close(); await self.server.wait_closed(); self.server = None`
\* (server.py 129-138), then exit_stack.aclose() (141), which returns at once
\* when nothing was entered
StopCloseServer ==
    /\ daemonUp
    /\ stopPc = "start"
    /\ running
    /\ server' = "closed"
    /\ IF exit_stack = <<>>
       THEN StopFinish
       ELSE /\ stopPc' = "aclose"
            /\ UNCHANGED <<sessions, socketExists, running>>
    /\ UNCHANGED <<clientVars, daemonUp, srvPc, closeCause, 
                   mainPc, cfgIdx, connPc, exit_stack, resource, attempts>>

\* AsyncExitStack.aclose raises, once every context was left, the exception
\* one of them raised; stop_server does not catch it (server.py 141)
AcloseEnds(failed) == IF failed THEN "raise" ELSE "finish"

\* `await self.exit_stack.aclose()` (server.py 141) leaves the context entered
\* last; leaving it may raise, and the stack goes on with the others
StopAclose ==
    /\ daemonUp
    /\ stopPc \in {"aclose", "aclose_exc"}
    /\ exit_stack # <<>>
    /\ LET top == exit_stack[Len(exit_stack)] IN
       \E ok \in BOOLEAN :
          /\ exit_stack' = SubSeq(exit_stack, 1, Len(exit_stack) - 1)
          /\ resource' = [resource EXCEPT ![top.name][top.layer] =
                             IF ok THEN "released" ELSE "close_failed"]
          /\ IF Len(exit_stack) > 1
             THEN /\ stopPc' = (IF ok THEN stopPc ELSE "aclose_exc")
                  /\ UNCHANGED <<sessions, socketExists, running>>
             ELSE IF AcloseEnds(~ok \/ stopPc = "aclose_exc") = "finish"
             THEN StopFinish
             ELSE /\ stopPc' = "aborted"
                  /\ UNCHANGED <<sessions, socketExists, running>>
    /\ UNCHANGED <<clientVars, daemonUp, srvPc, closeCause, server,
                   mainPc, cfgIdx, connPc, attempts>>

\* the request lines a client sends while the daemon starts and stops
LifeLines == { ObjectLine("list_servers", Missing, Missing),
               ObjectLine("execute_tool", "s1", "t1") }

\* what a session does with their calls
LifeOutcomes ==
    { SessionRaises("tool failed"), SessionHangs,
      SessionReturns(<<TextItem("Sunny"), TextItem("72F")>>, <<"t1">>) }

NextD ==
    \/ StartRemoveStale
    \/ StartListen
    \/ StartChmod
    \/ BeginAttempt
    \/ EnterTransport
    \/ EnterSession
    \/ Initialize
    \/ SleepDone
    \/ ServeForever
    \/ MainReturns
    \/ Signal
    \/ StopCloseServer
    \/ StopAclose
    \/ RawConnect
    \/ \E k \in Conns, line \in LifeLines : RawWrite(k, line)
    \/ \E k \in Conns : ServerRead(k)
    \/ \E k \in Conns : HandleWith(k, LifeOutcomes)
    \/ \E k \in Conns : ServerWrite(k)

SpecD == InitD /\ [][NextD]_vars

\* ------------------------------------------------------ the wire format
\* One document travels from json.dumps on one side to json.loads on the
\* other.  A text is a tuple of pieces; a piece is either one of the characters
\* JSON escapes (newline, quote, backslash) or a run of ordinary characters.
\* A JSON value is a string, null or an object (a sequence of members).
JStr(text) == [t |-> "str", s |-> text, m |-> <<>>]
JNull == [t |-> "null", s |-> <<>>, m |-> <<>>]
JObj(members) == [t |-> "obj", s |-> <<>>, m |-> members]
Member(key, value) == [k |-> key, v |-> value]

\* json.dumps of the characters of a string
EscapeChar(ch) ==
    CASE ch = "\n" -> "\\n"
      [] ch = "\"" -> "\\\""
      [] ch = "\\" -> "\\\\"
      [] OTHER -> ch

\* faulty variant: the escape of a newline is not undone
UnescapeCharKeepsNewline(ch) ==
    CASE ch = "\\\"" -> "\""
      [] ch = "\\\\" -> "\\"
      [] OTHER -> ch

\* json.loads of the characters of a string
UnescapeChar(ch) ==
    CASE ch = "\\n" -> "\n"
      [] ch = "\\\"" -> "\""
      [] ch = "\\\\" -> "\\"
      [] OTHER -> ch

\* json.dumps
RECURSIVE Dumps(_)
RECURSIVE DumpsMembers(_)
Dumps(v) ==
    CASE v.t = "str" -> <<"\"">> \o [i \in 1..Len(v.s) |-> EscapeChar(v.s[i])] \o <<"\"">>
      [] v.t = "null" -> <<"null">>
      [] v.t = "obj" -> <<"{">> \o DumpsMembers(v.m) \o <<"}">>

DumpsMembers(ms) ==
    IF ms = <<>> THEN <<>>
    ELSE Dumps(JStr(<<ms[1].k>>)) \o <<":">> \o Dumps(ms[1].v)
         \o (IF Len(ms) > 1 THEN <<",">> ELSE <<>>) \o DumpsMembers(Tail(ms))

\* the position of the quote that closes the string whose characters start at i
StringEnd(toks, i) ==
    CHOOSE j \in i..Len(toks) :
        toks[j] = "\"" /\ \A n \in i..(j - 1) : toks[n] # "\""

\* json.loads of the value that starts at position i: the value and the
\* position after it
RECURSIVE ParseValue(_, _)
RECURSIVE ParseMembers(_, _, _)
ParseValue(toks, i) ==
    CASE toks[i] = "\"" ->
             LET j == StringEnd(toks, i + 1) IN
             [v |-> JStr([n \in 1..(j - i - 1) |-> UnescapeChar(toks[i + n])]),
              next |-> j + 1]
      [] toks[i] = "null" -> [v |-> JNull, next |-> i + 1]
      [] toks[i] = "{" ->
             IF toks[i + 1] = "}"
             THEN [v |-> JObj(<<>>), next |-> i + 2]
             ELSE ParseMembers(toks, i + 1, <<>>)

ParseMembers(toks, i, acc) ==
    LET key == ParseValue(toks, i)
        val == ParseValue(toks, key.next + 1)
        members == Append(acc, Member(key.v.s[1], val.v))
    IN IF toks[val.next] = ","
       THEN ParseMembers(toks, val.next + 1, members)
       ELSE [v |-> JObj(members), next |-> val.next + 1]

\* json.loads of a whole text
Loads(toks) == ParseValue(toks, 1).v

\* StreamReader.readline: the bytes up to and including the first newline
Readline(bytes) ==
    LET n == CHOOSE j \in 1..Len(bytes) :
                 bytes[j] = "\n" /\ \A i \in 1..(j - 1) : bytes[i] # "\n"
    IN SubSeq(bytes, 1, n)

\* str.strip of a line that ends in a newline
Strip(line) == IF line[Len(line)] = "\n" THEN SubSeq(line, 1, Len(line) - 1) ELSE line

\* the JSON object json.dumps writes for a response dict, in insertion order
ResponseObject(d) ==
    JObj(<<Member("status", JStr(<<d["status"]>>))>>
         \o (IF "content" \in DOMAIN d THEN <<Member("content", JStr(d["content"]))>> ELSE <<>>)
         \o (IF "error" \in DOMAIN d THEN <<Member("error", JStr(d["error"]))>> ELSE <<>>))

\* the keys of a parsed object
ObjectKeys(obj) == { obj.m[i].k : i \in 1..Len(obj.m) }

\* the value a parsed object holds for a key
ObjectValue(obj, key) ==
    obj.m[CHOOSE i \in 1..Len(obj.m) : obj.m[i].k = key].v

\* the dict json.loads gives the client for a response; a status is one piece
ResponseDict(obj) ==
    [key \in ObjectKeys(obj) |->
        IF key = "status" THEN ObjectValue(obj, key).s[1] ELSE ObjectValue(obj, key).s]

\* the request dict a client method builds (main.py 212-217, 286-288, 303-306)
ClientRequestObject(op) ==
    JObj(<<Member("type", JStr(<<op.type>>))>>
         \o (IF op.type # "list_servers"
             THEN <<Member("server_name", JStr(op.server_name))>> ELSE <<>>)
         \o (IF op.type = "execute_tool"
             THEN <<Member("tool_name", JStr(op.tool_name)),
                    Member("arguments", op.arguments)>>
             ELSE <<>>))

\* request.get(key): the text of a string field, None when absent
RequestGet(obj, key) ==
    IF key \in ObjectKeys(obj) THEN ObjectValue(obj, key).s ELSE None

\* what handle_request and the handler it selects read from the parsed
\* request (handlers.py 27-36, 50-52, 96)
SelectedOperation(obj) ==
    [handler |-> IF \E t \in HandlerTypes : RequestGet(obj, "type") = <<t>>
                 THEN RequestGet(obj, "type")[1] ELSE "unknown",
     server_name |-> RequestGet(obj, "server_name"),
     tool_name |-> RequestGet(obj, "tool_name"),
     arguments |-> IF "arguments" \in ObjectKeys(obj)
                   THEN ObjectValue(obj, "arguments") ELSE JObj(<<>>)]

\* the texts a response or a request field is drawn from
WireTexts ==
    {<<>>, <<"Sunny">>, <<"Sunny", "\n", "72F">>, <<"say ", "\"", "hi", "\"">>,
     <<"C:", "\\", "n">>, <<"{", "\"", "status", "\"", ":", "null", "}", "\n">>}

WireNames == {<<"s1">>, <<"my ", "\"", "srv", "\"">>}

\* the responses the handler builds and the requests the client builds
WireInputs ==
    { [side |-> "response", r |-> MCPResponse("success", c, None)] : c \in WireTexts }
    \cup { [side |-> "response", r |-> MCPResponse("error", None, e)] : e \in WireTexts }
    \cup { [side |-> "request", type |-> "execute_tool", server_name |-> s,
            tool_name |-> t, arguments |-> a] :
              s \in WireNames, t \in {<<"t1">>, <<"a", "\\", "b">>},
              a \in {JNull, JObj(<<>>), JObj(<<Member("city", JStr(<<"Paris">>))>>),
                     JObj(<<Member("q", JStr(<<"a", "\n", "b">>)),
                            Member("opts", JObj(<<Member("unit", JStr(<<"C", "\"">>))>>))>>)} }
    \cup { [side |-> "request", type |-> t, server_name |-> s] :
              t \in HandlerTypes \ {"execute_tool", "list_servers"}, s \in WireNames }
    \cup { [side |-> "request", type |-> "list_servers"] }

InitW ==
    /\ Idle
    /\ pool_size = 1
    /\ socketExists = TRUE
    /\ sessions = <<>>
    /\ Serving(sessions)
    /\ codecPc = "start"
    /\ codecIn \in WireInputs
    /\ codecWire = <<>>
    /\ codecLine = <<>>
    /\ codecOut = [side |-> "none"]

notCodec == <<poolVars, callerVars, envVars, connVars, srvVars, handlerVars, lifeVars, wireLog,
              closePc>>

\* the client: `writer.write(json.dumps(request).encode() + b'\n')` (main.py 121)
RequestEncode ==
    /\ codecPc = "start"
    /\ codecIn.side = "request"
    /\ codecWire' = Dumps(ClientRequestObject(codecIn)) \o <<"\n">>
    /\ codecPc' = "sent"
    /\ UNCHANGED <<codecIn, codecLine, codecOut, notCodec>>

\* the daemon: `data = await reader.readline()` (server.py 72)
RequestReadline ==
    /\ codecPc = "sent"
    /\ codecIn.side = "request"
    /\ codecLine' = Readline(codecWire)
    /\ codecPc' = "line"
    /\ UNCHANGED <<codecIn, codecWire, codecOut, notCodec>>

\* the daemon: `message = data.decode().strip()`, `json.loads(message)` and
\* the reads of the request's fields (server.py 76, handlers.py 26-36)
RequestDecode ==
    /\ codecPc = "line"
    /\ codecIn.side = "request"
    /\ codecOut' = [side |-> "request",
                    op |-> SelectedOperation(Loads(Strip(codecLine)))]
    /\ codecPc' = "done"
    /\ UNCHANGED <<codecIn, codecWire, codecLine, notCodec>>

\* the daemon: `writer.write(json.dumps(response).encode() + b'\n')` (server.py 79)
ResponseEncode ==
    /\ codecPc = "start"
    /\ codecIn.side = "response"
    /\ codecWire' = Dumps(ResponseObject(to_dict(codecIn.r))) \o <<"\n">>
    /\ codecPc' = "sent"
    /\ UNCHANGED <<codecIn, codecLine, codecOut, notCodec>>

\* the client: the chunks read so far have added up to the whole document
\* (main.py 132-136)
ResponseRead ==
    /\ codecPc = "sent"
    /\ codecIn.side = "response"
    /\ codecLine' = codecWire
    /\ codecPc' = "line"
    /\ UNCHANGED <<codecIn, codecWire, codecOut, notCodec>>

\* the client: `DaemonResponse.from_dict(json.loads(buffer.decode()))`
\* (main.py 139-143); json.loads skips the trailing newline
ResponseDecode ==
    /\ codecPc = "line"
    /\ codecIn.side = "response"
    /\ codecOut' = [side |-> "response",
                    r |-> from_dict(ResponseDict(Loads(Strip(codecLine))))]
    /\ codecPc' = "done"
    /\ UNCHANGED <<codecIn, codecWire, codecLine, notCodec>>

NextW ==
    \/ RequestEncode
    \/ RequestReadline
    \/ RequestDecode
    \/ ResponseEncode
    \/ ResponseRead
    \/ ResponseDecode

SpecW == InitW /\ [][NextW]_vars

\* ===================================================================
\* Properties
\* ===================================================================

\* the callers that hold connection k
Holders(k) == { c \in Callers : held[c] = k }

\* how many times connection k sits in the idle queue
IdleCount(k) ==
    Cardinality({ i \in 1..Len(available_connections) : available_connections[i] = k })

\* caller c read a complete response document from the daemon
Exchanged(c) ==
    \E k \in Conns : \E i \in 1..Len(wireLog[k]) : wireLog[k][i] = <<"response", c>>

\* on the socket every request is followed by its caller's response before
\* the next request travels
Alternates(log) ==
    \A i \in 1..Len(log) :
        IF i % 2 = 1
        THEN log[i][1] = "request"
        ELSE log[i][1] = "response" /\ log[i][2] = log[i - 1][2]

\* C1: under every interleaving of get_connection and release_connection,
\* for every pool_size >= 1, active_connections never exceeds pool_size.
C1_ActiveWithinPoolSize == active_connections <= pool_size

\* the pool is at capacity and one more caller is waiting for a connection
C1_Witness ==
    /\ active_connections = pool_size
    /\ \E c \in Callers : pc[c] = "wait_get"
    /\ \E c \in Callers : held[c] # NoConn

\* C2: a connection is held by at most one caller or sits once in the idle
\* queue, never both; an open connection that is not closing is always in
\* exactly one of the two places.
C2_CheckedOutOrIdle ==
    \A k \in Conns :
        /\ Cardinality(Holders(k)) + IdleCount(k) <= 1
        /\ (k < nextConn /\ ~closing[k]) => Cardinality(Holders(k)) + IdleCount(k) = 1

\* a caller holds a connection that another caller used and released
C2_Witness ==
    \E c1, c2 \in Callers :
        /\ c1 # c2
        /\ held[c1] # NoConn
        /\ \E i \in 1..Len(wireLog[held[c1]]) : wireLog[held[c1]][i] = <<"request", c2>>
        /\ pc[c2] = "done"

C4_ReleasedBeforeReturn ==
    \A c \in Callers :
        /\ released[c] <= acquired[c]
        /\ acquired[c] <= 1
        /\ pc[c] = "done" => released[c] = acquired[c] /\ held[c] = NoConn

\* a call that ended with an exception inside the exchange has returned
C4_Witness ==
    \E c \in Callers :
        pc[c] = "done" /\ acquired[c] = 1 /\ released[c] = 1 /\ outcome[c].kind = "raise"

\* C5: every send_request call eventually returns (a caller that finds the
\* pool at capacity gets an error response after a bounded wait).
C5_EveryCallReturns ==
    \A c \in Callers : (pc[c] = "wait_get") ~> (pc[c] = "done")

\* C6: send_request never raises; a missing socket, a failed connect, a
\* failed write or read, a read timeout, an end of stream and an unparseable
\* response each give a response whose status is 'error'.
C6_NeverRaises ==
    \A c \in Callers :
        pc[c] = "done" =>
            /\ result[c].status \in {"success", "error"}
            /\ outcome[c].fault # "none" => result[c].status = "error"

\* a call has returned after the connection was reset under it
C6_Witness ==
    \E c \in Callers :
        pc[c] = "done" /\ outcome[c].fault \in {"write_failed", "read_failed"}

\* C7: a call made while the socket path does not exist returns the
\* 'socket not found' error at once and leaves the pool as it was.
C7_NoSocketFastPath ==
    [][\A c \in Callers :
          (pc[c] = "idle" /\ pc'[c] # "idle" /\ ~socketExists) =>
              /\ pc'[c] = "done"
              /\ result'[c] = SocketNotFound
              /\ UNCHANGED <<active_connections, available_connections, pool_lock,
                             nextConn, held, acquired>>]_vars

\* a call returned on the fast path
C7_Witness ==
    \E c \in Callers : pc[c] = "done" /\ outcome[c].fault = "no_socket"

\* C8: on one connection the daemon never reads request N+1 before it wrote
\* the response to request N, and writes one response per request, in order.
C8_SequentialPerConnection ==
    \A k \in Conns :
        /\ Len(srvOut[k]) <= Len(srvIn[k])
        /\ Len(srvIn[k]) <= Len(srvOut[k]) + 1
        /\ srvPc[k] = "read" => Len(srvIn[k]) = Len(srvOut[k])
        /\ srvPc[k] \in {"handle", "write", "hung"} =>
              Len(srvIn[k]) = Len(srvOut[k]) + 1 /\ srvCur[k] = srvIn[k][Len(srvIn[k])]
        /\ \A i \in 1..Len(srvOut[k]) : srvOut[k][i].req = srvIn[k][i]

\* a second request is already waiting while the first is being handled
C8_Witness ==
    \E k \in Conns : srvPc[k] \in {"handle", "write"} /\ inbox[k] # <<>>

\* a line that is malformed JSON or names no known request type
ProtocolError(line) ==
    \/ line.kind \in {"bad_utf8", "bad_json"}
    \/ line.kind = "object" /\ line.type \notin HandlerTypes

\* whether an error message contains the given piece of text
Mentions(resp, text) ==
    /\ "error" \in DOMAIN resp
    /\ \E i \in 1..Len(resp["error"]) : resp["error"][i] = text

\* C9: a malformed or unknown-type request line gets one error response
\* (naming the type when it is unknown) and does not end the serving loop.
C9_ProtocolErrorsAnswered ==
    \A k \in Conns :
        /\ closeCause[k] = "request_error" => ~ProtocolError(srvCur[k])
        /\ \A i \in 1..Len(srvOut[k]) :
              ProtocolError(srvOut[k][i].req) =>
                  /\ srvOut[k][i].resp["status"] = "error"
                  /\ srvOut[k][i].req.kind = "object" =>
                        Mentions(srvOut[k][i].resp, Str(srvOut[k][i].req.type))

\* the execute_tool requests answered so far whose server_name is not a
\* registry key
UnknownServerAnswers ==
    { e \in UNION { { srvOut[k][i] : i \in 1..Len(srvOut[k]) } : k \in Conns } :
        /\ e.req.kind = "object"
        /\ e.req.type = "execute_tool"
        /\ e.req.server_name \notin Keys(sessions) }

Answered == UNION { { srvOut[k][i] : i \in 1..Len(srvOut[k]) } : k \in Conns }

\* the tool call made for an execute_tool request raised
ToolRaised(e) == e.req.type = "execute_tool" /\ e.call.called /\ e.call.out.raises

\* C11: when the tool call raises, the caller gets an error response carrying
\* the exception's message; the exception does not end the connection; the
\* server stays in the registry, and every request that names it with a tool
\* is dispatched to its session again.
C11_ToolFailureContained ==
    /\ \A k \in Conns :
          (srvCall[k].called /\ srvCall[k].out.raises) =>
              /\ srvPc[k] \in {"write", "read", "closed"}
              /\ srvPc[k] = "read" => Len(srvOut[k]) = Len(srvIn[k])
              /\ srvPc[k] = "closed" => closeCause[k] \in {"write_error", "eof"}
    /\ \A e \in Answered :
          ToolRaised(e) =>
              /\ e.resp = [status |-> "error",
                           error |-> <<"Error executing MCP tool: ", e.call.out.msg>>]
              /\ e.req.server_name \in Keys(sessions)
              /\ \A f \in Answered :
                    (/\ f.req.type = "execute_tool"
                     /\ f.req.server_name = e.req.server_name
                     /\ Truthy(f.req.tool_name)) => f.call.called

\* on one connection a tool call raised and the next call to the same server
\* went through
C11_Witness ==
    \E k \in Conns :
        /\ Len(srvOut[k]) = 2
        /\ ToolRaised(srvOut[k][1])
        /\ srvOut[k][2].req = srvOut[k][1].req
        /\ srvOut[k][2].call.called
        /\ srvOut[k][2].resp["status"] = "success"

\* the tool call made for an execute_tool request returned a result
ToolReturned(e) == e.req.type = "execute_tool" /\ e.call.called /\ ~e.call.out.raises

\* the items of a tool result that are of type text, in order
TextItems(items) == SelectSeq(items, LAMBDA it : it.type = "text")

\* C12: a tool call that returns is answered with status success and, as
\* content, the texts of the result's text items in their order with one
\* newline between two of them (items of other types are skipped), or the
\* sentence "No text content found in result" when there is no text item.
C12_TextContentJoined ==
    \A e \in Answered :
        ToolReturned(e) =>
            LET texts == TextItems(e.call.out.content)
                c == e.resp["content"]
            IN  /\ DOMAIN e.resp = {"status", "content"}
                /\ e.resp["status"] = "success"
                /\ IF texts = <<>>
                   THEN c = <<"No text content found in result">>
                   ELSE /\ Len(c) = 2 * Len(texts) - 1
                        /\ \A i \in 1..Len(texts) : c[2 * i - 1] = texts[i].text
                        /\ \A i \in 1..(Len(texts) - 1) : c[2 * i] = "\n"

\* a result of two text items around an image was answered with 'Sunny\n72F'
C12_Witness ==
    \E e \in Answered :
        /\ ToolReturned(e)
        /\ e.call.out.content = <<TextItem("Sunny"), ImageItem, TextItem("72F")>>
        /\ e.resp["content"] = <<"Sunny", "\n", "72F">>

\* C13: a list_servers request is always answered with status success and a
\* content that decodes to the keys of the registry, each exactly once.
C13_ListServersIsRegistry ==
    \A e \in Answered :
        (e.req.kind = "object" /\ e.req.type = "list_servers") =>
            /\ DOMAIN e.resp = {"status", "content"}
            /\ e.resp["status"] = "success"
            /\ \E n \in 0..Len(e.resp["content"]) :
                  /\ IsJsonList(e.resp["content"], n)
                  /\ LET names == JsonList(e.resp["content"], n) IN
                        /\ { names[i] : i \in 1..n } = Keys(sessions)
                        /\ \A i, j \in 1..n : names[i] = names[j] => i = j

\* with two servers connected the answer lists both
C13_Witness ==
    \E e \in Answered :
        /\ e.req.kind = "object" /\ e.req.type = "list_servers"
        /\ Keys(sessions) = {"s1", "s2"}
        /\ e.resp["content"] = <<"[", "s1", ",", "s2", "]">>

\* the stop_server task has ended: it returned, an exception left it, or it
\* was cancelled with the process
ShutdownOver == stopPc \in {"done", "aborted", "cancelled"}

\* nothing that was ever entered on the exit stack is still open
AllReleased == \A n \in ServerNames, l \in Layers : resource[n][l] \in {"none", "released"}

\* C14: once the shutdown a signal started is over, the daemon accepts no new
\* connection, every session ever opened is released, the registry is empty
\* and the socket file is gone; the registry is emptied only after the
\* sessions were released and the listener closed, and no spawned process
\* is left open.
C14_ShutdownReachesCleanState ==
    /\ stopPc \in {"aclose", "aclose_exc"} => server # "open"
    /\ stopPc = "done" => server # "open"
    /\ ShutdownOver =>
          /\ server # "open"
          /\ AllReleased
          /\ sessions = <<>>
          /\ ~socketExists

\* leaving exactly one of the contexts raised during exit_stack.aclose()
CloseFailed ==
    \E n \in ServerNames, l \in Layers :
        /\ resource[n][l] = "close_failed"
        /\ \A m \in ServerNames, h \in Layers :
              resource[m][h] = "close_failed" => (m = n /\ h = l)

\* C15: when closing one session fails during a shutdown that began after
\* every configured server had connected, stop_server still releases the
\* other sessions, empties the registry and removes the socket file.
C15_ShutdownSurvivesCloseFailure ==
    (/\ mainPc = "serving"
     /\ \A i \in 1..Len(attempts) : attempts[i].result = "ok"
     /\ stopPc \in {"done", "aborted"}
     /\ CloseFailed) =>
        /\ \A n \in ServerNames, l \in Layers : resource[n][l] # "open"
        /\ sessions = <<>>
        /\ ~socketExists

\* C16: after a connect attempt that failed, nothing the attempt acquired is
\* still open.
C16_FailedConnectReleasesAll ==
    \A i \in 1..Len(attempts) :
        attempts[i].result = "failed" =>
            \A l \in Layers : resource[attempts[i].name][l] # "open"

\* C17: a request that reaches a session through the registry always finds
\* that session's transport and session context open.
C17_RegistrySessionsLive ==
    \A k \in Conns :
        (srvPc[k] = "handle" /\ CallsSession(srvCur[k], sessions)) =>
            SessionLive(srvCur[k].server_name)

\* C18: the configured servers are attempted one at a time in configuration
\* order; a failed attempt leaves its server out of the registry and the
\* attempts after it are still made; a server that connected is registered.
C18_StartupSequential ==
    /\ Len(attempts) <= Len(Configs)
    /\ \A i \in 1..Len(attempts) :
          /\ attempts[i].name = Configs[i].name
          /\ attempts[i].result = "pending" =>
                (i = Len(attempts) /\ connPc \in {"transport", "session", "init"})
          /\ attempts[i].result = "failed" => attempts[i].name \notin Keys(sessions)
          /\ (attempts[i].result = "ok" /\ stopPc # "done") =>
                attempts[i].name \in Keys(sessions)
    /\ connPc \in {"transport", "session", "init"} =>
          (Len(attempts) = cfgIdx /\ attempts[cfgIdx].result = "pending")
    /\ mainPc \in {"serving", "returned"} =>
          /\ Len(attempts) = Len(Configs)
          /\ \A i \in 1..Len(attempts) : attempts[i].result # "pending"

\* the first server failed to connect, the second was attempted and registered
C18_Witness ==
    /\ mainPc = "serving"
    /\ attempts[1].result = "failed"
    /\ attempts[2].result = "ok"
    /\ sessions = <<"s2">>

\* C19: while the tool call of one connection does not return, the tasks of
\* the other connections go on: a request that arrived is read, a request
\* read is handled, a response made is written; only the connection that
\* issued the call gets no further.
C19_HungCallBlocksOnlyItsTask ==
    \A j \in Conns :
        srvPc[j] = "hung" =>
            /\ ~(ENABLED ServerRead(j)) /\ ~(ENABLED ServerHandle(j))
            /\ ~(ENABLED ServerWrite(j))
            /\ Len(srvOut[j]) < Len(srvIn[j])
            /\ \A k \in Conns \ {j} :
                  /\ (srvPc[k] = "read" /\ inbox[k] # <<>>) => ENABLED ServerRead(k)
                  /\ srvPc[k] = "handle" => ENABLED ServerHandle(k)
                  /\ srvPc[k] = "write" => ENABLED ServerWrite(k)

\* one connection's call hangs while a response for another is ready to be written
C19_Witness ==
    \E j, k \in Conns :
        /\ srvPc[j] = "hung"
        /\ srvPc[k] = "write"
        /\ srvResp[k]["status"] = "success"

\* C20: the serving loop of a connection ends only when the read returns
\* end-of-stream or reading or writing fails; the connection is closed then,
\* and the daemon keeps accepting and serving.
C20_LoopEndsOnEofOrIoError ==
    \A k \in Conns :
        srvPc[k] = "closed" =>
            /\ closeCause[k] \in {"eof", "read_error", "write_error"}
            /\ peerClosed[k]
            /\ daemonUp /\ server = "open"

\* the connections the pool has handed out or holds idle
InPool == { k \in Conns : Cardinality(Holders(k)) + IdleCount(k) >= 1 }

\* C21: releasing a connection that reports closing lowers active_connections
\* by exactly one and leaves the idle queue alone; releasing an open one
\* appends it to the idle queue and leaves active_connections alone. So the
\* count is always the number of connections handed out or idle, plus the
\* connects in progress.
C21_ReleaseContract ==
    /\ [][\A c \in Callers :
            (pc[c] = "release" /\ pc'[c] = "done") =>
                IF closing[held[c]]
                THEN /\ active_connections' = active_connections - 1
                     /\ available_connections' = available_connections
                ELSE /\ active_connections' = active_connections
                     /\ available_connections' = Append(available_connections, held[c])]_vars
    /\ [](active_connections =
             Cardinality(InPool) + Cardinality({ c \in Callers : pc[c] = "opening" }))

\* a closing connection was released and dropped, an open one was released
\* and sits in the idle queue
C21_Witness ==
    \E k, j \in Conns :
        /\ k < nextConn /\ closing[k] /\ k \notin InPool
        /\ j < nextConn /\ ~closing[j] /\ IdleCount(j) = 1
        /\ active_connections = 1

\* C22: get_connection hands out the head of the idle queue when there is
\* one; it goes on to the capacity test only with the queue empty; below
\* capacity it raises active_connections by one and opens a new connection,
\* lowering the count again when the connect fails; at capacity it opens
\* nothing and waits until a connection is put in the idle queue.
C22_GetConnectionContract ==
    /\ [][\A c \in Callers :
            /\ (pc[c] \in {"try_get", "wait_get"} /\ pc'[c] = "send") =>
                  /\ available_connections # <<>>
                  /\ held'[c] = Head(available_connections)
                  /\ available_connections' = Tail(available_connections)
                  /\ active_connections' = active_connections
                  /\ nextConn' = nextConn
            /\ (pc[c] = "try_get" /\ pc'[c] = "lock_wait") => available_connections = <<>>
            /\ (pc[c] = "lock_wait" /\ pc'[c] = "opening") =>
                  /\ active_connections < pool_size
                  /\ active_connections' = active_connections + 1
            /\ (pc[c] = "lock_wait" /\ pc'[c] = "wait_get") =>
                  /\ active_connections = pool_size
                  /\ active_connections' = active_connections
                  /\ nextConn' = nextConn
            /\ (pc[c] = "opening" /\ pc'[c] = "send") =>
                  /\ held'[c] = nextConn
                  /\ nextConn' = nextConn + 1
                  /\ active_connections' = active_connections
            /\ (pc[c] = "opening" /\ pc'[c] # "opening" /\ pc'[c] # "send") =>
                  /\ pc'[c] = "done"
                  /\ held'[c] = NoConn
                  /\ nextConn' = nextConn
                  /\ active_connections' = active_connections - 1
            /\ pc[c] = "wait_get" => pc'[c] \in {"wait_get", "send"}]_vars
    /\ [](\A c \in Callers :
             (pc[c] = "wait_get" /\ available_connections = <<>>) => ~(ENABLED CallerStep(c)))

\* the pool is at capacity, the idle queue is empty and a caller waits for a
\* connection another caller holds
C22_Witness ==
    \E c, d \in Callers :
        /\ pc[c] = "wait_get"
        /\ available_connections = <<>>
        /\ held[d] # NoConn
        /\ active_connections = pool_size

\* C23: while reading the response, the call goes on reading only while the
\* bytes read so far do not parse and returns the parsed document as soon as
\* they do; when the wait for a chunk runs out it returns the parsed document
\* if the bytes parse and a timeout error otherwise; at end of stream with
\* nothing read or with bytes that do not parse it returns an error response.
C23_ReadLoopContract ==
    /\ [](\A c \in Callers : pc[c] = "recv" => ~Parses(buffer[c]))
    /\ [][\A c \in Callers :
            (pc[c] = "recv" /\ pc'[c] # "recv") =>
                LET o == outcome'[c] IN
                /\ pc'[c] = "release"
                /\ o.fault \in {"none", "timeout", "eof", "unparseable", "read_failed"}
                /\ o.fault = "none" =>
                      /\ buffer'[c] # buffer[c]
                      /\ Parses(buffer'[c])
                      /\ o = Return(from_dict(buffer'[c][1].doc), "none")
                /\ o.fault = "timeout" =>
                      /\ buffer'[c] = buffer[c]
                      /\ o.kind = "return"
                      /\ IF Parses(buffer[c])
                         THEN o.value = from_dict(buffer[c][1].doc)
                         ELSE /\ o.value.status = "error"
                              /\ o.value.content = None
                              /\ o.value.error[1] =
                                    (IF buffer[c] = <<>>
                                     THEN "Timeout waiting for response from MCP daemon"
                                     ELSE "Timeout waiting for complete response from MCP daemon")
                /\ o.fault \in {"eof", "unparseable"} =>
                      /\ buffer'[c] = buffer[c]
                      /\ o.kind = "return"
                      /\ (buffer[c] = <<>> \/ ~Parses(buffer[c])) =>
                            (o.value.status = "error" /\ o.value.content = None)
                      /\ buffer[c] = <<>> <=> o.fault = "eof"]_vars

\* a response that arrived in two chunks was returned after the second
C23_Witness ==
    \E c \in Callers :
        /\ pc[c] = "done"
        /\ outcome[c].fault = "none"
        /\ Len(buffer[c]) = 2
        /\ result[c] = from_dict(buffer[c][1].doc)

\* C24: a list operation of the client returns the list its response's
\* content decodes to when the response has status success, and the empty
\* list when the response has status error, whether the daemon or the client
\* itself made that response.
C24_ListOperationsReturnLists ==
    \A c \in Callers :
        (pc[c] = "done" /\ request[c].type \in ListTypes) =>
            /\ result[c].status \in {"success", "error"}
            /\ ListOperation(result[c]).kind = "list"
            /\ result[c].status = "error" => ListOperation(result[c]).items = <<>>
            /\ result[c].status = "success" =>
                  \E n \in 0..Len(result[c].content) :
                      /\ IsJsonList(result[c].content, n)
                      /\ ListOperation(result[c]).items = JsonList(result[c].content, n)

\* the answers to per-server list requests whose server_name is absent or is
\* not a key of the registry
UnknownServerListAnswers ==
    { e \in Answered :
        /\ e.req.kind = "object"
        /\ e.req.type \in ListTypes \ {"list_servers"}
        /\ e.req.server_name \notin Keys(sessions) }

\* the response handle_request makes of an exception a handler raised
HandlerRaised(resp) == Mentions(resp, "Error processing request: ")

\* C25 as stated: for a server_name that is missing or not a registry key the
\* three per-server list handlers return an error response, call no session
\* and do not raise.
C25_ListHandlersNeverRaise ==
    \A e \in UnknownServerListAnswers :
        /\ e.resp["status"] = "error"
        /\ ~e.call.called
        /\ ~HandlerRaised(e.resp)

\* C25 amended: such a request is always answered with an error response and
\* no session is called; the handler returns that response itself, naming the
\* missing parameter or the unknown server, when server_name is missing,
\* empty or a string; for a server_name that cannot be a dict key the lookup
\* raises and handle_request makes the error response.
C25_UnknownServerListIsError ==
    \A e \in UnknownServerListAnswers :
        /\ DOMAIN e.resp = {"status", "error"}
        /\ e.resp["status"] = "error"
        /\ ~e.call.called
        /\ ~Truthy(e.req.server_name) =>
              e.resp["error"] = <<"Missing server_name parameter">>
        /\ e.req.server_name \in ServerNames =>
              e.resp["error"] = <<"Server '", e.req.server_name, "' not found or not connected">>
        /\ HandlerRaised(e.resp) <=> e.req.server_name = Unhashable

\* a per-server list request naming a server that is not connected was
\* answered 'not found'
C25_Witness ==
    \E e \in UnknownServerListAnswers :
        /\ e.req.type = "list_server_resources"
        /\ e.req.server_name = "s2"
        /\ Mentions(e.resp, "' not found or not connected")

\* an execute_tool request without a server_name or without a tool_name
LacksField(line) ==
    /\ line.kind = "object"
    /\ line.type = "execute_tool"
    /\ (line.server_name = Missing \/ line.tool_name = Missing)

\* C26: an execute_tool request that lacks server_name or tool_name is answered
\* with the error 'Missing required fields', and handling it calls no session,
\* whatever the registry holds.
C26_MissingFieldIsError ==
    /\ [][\A k \in Conns :
              (srvPc[k] = "handle" /\ srvPc'[k] # "handle" /\ LacksField(srvCur[k])) =>
                  /\ toolCalls' = toolCalls
                  /\ srvPc'[k] = "write"
                  /\ ~srvCall'[k].called]_vars
    /\ [](\A e \in Answered :
              LacksField(e.req) =>
                  /\ e.resp = [status |-> "error",
                               error |-> <<"Missing required fields (server_name, tool_name)">>]
                  /\ ~e.call.called)

\* a request naming a connected server but no tool was answered, and so was
\* one naming a tool but no server
C26_Witness ==
    /\ "s1" \in Keys(sessions)
    /\ \E e \in Answered :
          LacksField(e.req) /\ e.req.server_name = "s1" /\ e.resp["status"] = "error"
    /\ \E e \in Answered :
          LacksField(e.req) /\ e.req.tool_name = "t1" /\ e.resp["status"] = "error"

\* a response dict of one of the two shapes
WellFormedResponse(d) ==
    \/ /\ d["status"] = "success"
       /\ DOMAIN d = {"status", "content"}
       /\ d["content"] # None
    \/ /\ d["status"] = "error"
       /\ DOMAIN d = {"status", "error"}
       /\ d["error"] # None

\* C27: every response handle_request returns is either a success with content
\* and no error field or an error with error and no content field.
C27_ResponseHasOneField ==
    /\ \A k \in Conns : srvPc[k] = "write" => WellFormedResponse(srvResp[k])
    /\ \A e \in Answered : WellFormedResponse(e.resp)

\* the handler has produced a success response and an error response for a
\* failed session call
C27_Witness ==
    /\ \E e \in Answered : e.resp["status"] = "success" /\ e.call.called
    /\ \E e \in Answered :
          e.resp["status"] = "error" /\ e.call.called /\ e.call.out.raises

\* C28: a response decoded by the client has the status the daemon encoded and
\* the same one of content/error with the same value, the other being absent;
\* a request decoded by the daemon selects the handler of the client's
\* operation with the same server_name, tool_name and arguments.
C28_WireRoundTrip ==
    codecPc = "done" =>
        IF codecIn.side = "response"
        THEN /\ codecOut.r.status = codecIn.r.status
             /\ codecOut.r.content = codecIn.r.content
             /\ codecOut.r.error = codecIn.r.error
        ELSE /\ codecOut.op.handler = codecIn.type
             /\ codecIn.type # "list_servers" =>
                    codecOut.op.server_name = codecIn.server_name
             /\ codecIn.type = "execute_tool" =>
                    /\ codecOut.op.tool_name = codecIn.tool_name
                    /\ codecOut.op.arguments = codecIn.arguments

\* a success response whose content holds a newline and a quote-bearing
\* execute_tool request have been decoded
C28_Witness ==
    /\ codecPc = "done"
    /\ \/ /\ codecIn.side = "response"
          /\ codecIn.r.status = "success"
          /\ codecOut.r.content = <<"Sunny", "\n", "72F">>
       \/ /\ codecIn.side = "request"
          /\ codecIn.type = "execute_tool"
          /\ codecOut.op.server_name = <<"my ", "\"", "srv", "\"">>
          /\ codecOut.op.arguments.t = "obj"
          /\ Len(codecOut.op.arguments.m) = 2

\* the answers to list_servers requests
ListServersAnswers ==
    { e \in Answered : e.req.kind = "object" /\ e.req.type = "list_servers" }

HandleStep(k) == srvPc[k] = "handle" /\ srvPc'[k] \in {"write", "hung"}

\* C30: handling a request, whatever its type and outcome, leaves the
\* registry as it was: the same keys, bound to the same sessions in the same state.
C30_HandlerKeepsRegistry ==
    [][\A k \in Conns :
          HandleStep(k) =>
              /\ sessions' = sessions
              /\ resource' = resource
              /\ exit_stack' = exit_stack]_vars

\* a call on a registered server's session has just raised, and another
\* request was answered from the same registry before it
C30_Witness ==
    \E k \in Conns :
        /\ srvPc[k] = "write"
        /\ srvCall[k].called
        /\ srvCall[k].out.raises
        /\ srvCall[k].reg = sessions
        /\ srvCur[k].server_name \in Keys(sessions)
        /\ \E e \in Answered : e.call.reg = sessions

\* a context is pushed on the exit stack in this step
Registers == Len(exit_stack') > Len(exit_stack)

\* stop_server has got to exit_stack.aclose() or beyond it
ShutdownReleasing == stopPc \in {"aclose", "aclose_exc", "done", "aborted"}

\* C31: the cleanup scope changes only by a connect pushing a context and by
\* shutdown leaving contexts, and nothing is pushed on it while shutdown is
\* releasing it or after shutdown has released it, also when the signal
\* arrives during the startup connection sequence.
C31_CleanupScopeNotShared ==
    [][/\ exit_stack' # exit_stack =>
            \/ /\ connPc \in {"transport", "session"}
               /\ exit_stack' = Append(exit_stack,
                                    [name |-> CurrentConfig.name, layer |-> connPc])
            \/ /\ stopPc \in {"aclose", "aclose_exc"}
               /\ exit_stack' = SubSeq(exit_stack, 1, Len(exit_stack) - 1)
       /\ Registers => ~ShutdownReleasing]_vars

\* the startup connection sequence is over and no shutdown has begun
SteadyState == mainPc = "serving" /\ stopPc = "none"

\* C32: the registry changes only by the startup sequence registering the
\* server it has just connected and by shutdown clearing it; between the end
\* of startup and the start of shutdown no step changes it.
C32_RegistryWrittenByStartupAndShutdown ==
    [][/\ sessions' # sessions =>
            \/ /\ mainPc = "connecting"
               /\ connPc = "init"
               /\ Keys(sessions') = Keys(sessions) \cup {CurrentConfig.name}
               /\ SubSeq(sessions', 1, Len(sessions)) = sessions
            \/ /\ stopPc \in {"start", "aclose", "aclose_exc"}
               /\ sessions' = <<>>
       /\ SteadyState => sessions' = sessions]_vars

\* in the steady state a client task has read the registry of two servers and
\* another request is in hand
C32_Witness ==
    /\ SteadyState
    /\ Keys(sessions) = {"s1", "s2"}
    /\ \E e \in Answered : e.call.reg = sessions
    /\ \E k \in Conns : srvPc[k] = "handle"

\* the positions at which a caller's task is suspended in a socket operation:
\* the connect, the write with its drain, the read of a chunk
IOWaits == {"opening", "send", "recv"}

\* C33: no task waits for I/O while it holds the pool lock; the lock is held
\* only around the update of the active-connection counter.
C33_NoLockAcrossIO ==
    \A c \in Callers : pool_lock = c => pc[c] \notin IOWaits

\* every configured server has been attempted and no attempt is under way
SequenceComplete ==
    /\ Len(attempts) = Len(Configs)
    /\ \A i \in 1..Len(attempts) : attempts[i].result # "pending"
    /\ connPc = "idle"

\* C34: start_server goes through its steps in this order: the stale socket
\* file is removed, the socket is bound and listened on, its permission bits
\* are set, the whole startup connection sequence is run, and only then the
\* serve loop is entered.
C34_StartOrder ==
    /\ [][mainPc' # mainPc =>
            \/ mainPc = "start" /\ mainPc' = "bind" /\ ~socketExists' /\ server' = "none"
            \/ mainPc = "bind" /\ mainPc' = "chmod" /\ socketExists' /\ server' = "open"
            \/ mainPc = "chmod" /\ mainPc' = "connecting" /\ attempts = <<>>
            \/ mainPc = "connecting" /\ mainPc' = "serving" /\ SequenceComplete
            \/ mainPc \in {"connecting", "serving"} /\ mainPc' = "returned"]_vars
    /\ [](attempts # <<>> => mainPc \in {"connecting", "serving", "returned"})

\* the serve loop was entered after both configured servers were attempted
C34_Witness ==
    /\ mainPc = "serving"
    /\ SequenceComplete
    /\ socketExists
    /\ server = "open"

\* the daemon answered request req with a response that decodes to r
AnswerTo(req, r) == \E e \in Answered : e.req = req /\ from_dict(e.resp) = r

\* C35: a success response that send_request returns is the daemon's answer
\* to the request of that call, never the answer to an earlier request on the
\* same pooled connection.
C35_ResponseMatchesRequest ==
    \A c \in Callers :
        (pc[c] = "done" /\ result[c].status = "success") =>
            AnswerTo(request[c], result[c])

\* caller c waits at the queue of a pool at capacity while every connection
\* that was checked out has been released and no call is under way that could
\* still put a connection in the queue
WaitsInVain(c) ==
    /\ pc[c] = "wait_get"
    /\ available_connections = <<>>
    /\ \A d \in Callers \ {c} : pc[d] \in {"idle", "done", "wait_get"}

\* C36: a caller that found the pool at capacity obtains a connection once the
\* checked-out connections are released, also when they were closing and
\* were discarded: it is never left waiting with every connection released
\* and none in the queue.
C36_WaiterIsServed ==
    \A c \in Callers : ~WaitsInVain(c)

\* the connections the counter stands for: those a caller holds, the one a
\* caller is opening under the lock, and those in the idle queue
CheckedOut == Cardinality({ c \in Callers : held[c] # NoConn \/ pc[c] = "opening" })

\* C37: after any sequence of get_connection, release_connection and
\* close_all, active_connections is the number of checked-out connections
\* plus the number of idle ones and is never negative, also when close_all
\* runs while connections are checked out.
C37_CountMatchesConnections ==
    /\ active_connections >= 0
    /\ active_connections = CheckedOut + Len(available_connections)

\* caller c is handed connection k in this step
HandedOut(c, k) == held[c] = NoConn /\ held'[c] = k

\* a connection is put in the idle queue in this step
PutBack(k) == available_connections' = Append(available_connections, k)

\* C38: get_connection hands out no connection that is closed or whose peer
\* has closed it, also not one that went dead while it sat in the idle queue,
\* and a connection on which the caller saw end-of-stream is not put back in
\* the idle queue.
C38_NoDeadConnectionHandedOut ==
    [][/\ \A c \in Callers, k \in Conns :
             HandedOut(c, k) => (~closing[k] /\ ~peerClosed[k])
       /\ \A c \in Callers :
             (pc[c] = "release" /\ pc'[c] = "done" /\ outcome[c].fault \in {"eof", "unparseable"})
                 => ~PutBack(held[c])]_vars

\* the set of names a list_servers response lists
ListedNames(resp) ==
    LET c == resp["content"]
        n == CHOOSE n \in 0..Len(c) : IsJsonList(c, n)
    IN { JsonList(c, n)[i] : i \in 1..n }

\* the servers the startup sequence has connected so far
ConnectedSoFar ==
    { attempts[i].name : i \in { j \in 1..Len(attempts) : attempts[j].result = "ok" } }

\* C39: clients are answered while the startup connection sequence is still
\* running; as long as no shutdown has begun, a list_servers request is
\* answered with exactly the servers connected so far, and the answers one
\* connection gets list more and more servers, never fewer.
C39_ListServersDuringStartup ==
    /\ [][\A k \in Conns :
             (HandleStep(k) /\ srvCur[k].type = "list_servers" /\ stopPc = "none") =>
                 /\ srvResp'[k]["status"] = "success"
                 /\ \E n \in 0..Len(srvResp'[k]["content"]) :
                        IsJsonList(srvResp'[k]["content"], n)
                 /\ ListedNames(srvResp'[k]) = ConnectedSoFar]_vars
    /\ [](stopPc = "none" =>
             \A k \in Conns : \A i, j \in 1..Len(srvOut[k]) :
                 (/\ i < j
                  /\ srvOut[k][i] \in ListServersAnswers
                  /\ srvOut[k][j] \in ListServersAnswers) =>
                     ListedNames(srvOut[k][i].resp) \subseteq ListedNames(srvOut[k][j].resp))

\* one connection was told of one server first and of both later
C39_Witness ==
    /\ stopPc = "none"
    /\ \E k \in Conns :
          /\ Len(srvOut[k]) = 2
          /\ srvOut[k][1] \in ListServersAnswers
          /\ srvOut[k][2] \in ListServersAnswers
          /\ ListedNames(srvOut[k][1].resp) = {"s1"}
          /\ ListedNames(srvOut[k][2].resp) = {"s1", "s2"}

\* C40: every request type the client emits is a key of the daemon's dispatch
\* table, so that no request of a client operation is answered with
\* 'Unknown request type'.
C40_ClientTypesDispatched ==
    \A e \in Answered :
        (e.req.kind = "object" /\ e.req.type \in ClientTypes) =>
            (e.req.type \in HandlerTypes /\ ~Mentions(e.resp, "Unknown request type: "))
====
